---- MODULE Spec2Model ----
(***************************************************************************)
(* MetaTrimX: the structural scanner and the main pipeline of              *)
(* core/metatrimx_core.py, the feature scan and parameter predictor of     *)
(* core/metatrimx_compiler.py, the trainer's diagnostic terminal of        *)
(* metatrimx_trainer.py and the classifier of core/metatrimx_neural.py.    *)
(*                                                                         *)
(* Text is a sequence of one-character strings; a Python dict or Counter   *)
(* is a sequence of <<key, value>> pairs in insertion order.  Decimal      *)
(* numbers are integers counted in thousandths.                            *)
(***************************************************************************)
EXTENDS Integers, Sequences, FiniteSets, TLC

VARIABLES
    prog,           \* which entry point runs: "core", "compiler", "trainer"
                    \* or "neural"
    pc,             \* position of the running entry point
    samples,        \* core main: the parsed [sample, tag] list
    stats_pos,      \* scan_raw_data: sample id -> Counter of tag offsets
    stats_gap,      \* scan_raw_data: sample id -> Counter of primer gaps
    fstat,          \* condition of the two read files as the scan met it
    fopen,          \* scan_file_structure: the file handle is open
    i,              \* the scan loops: index of the next line
    reads_checked,  \* scan_file_structure: reads examined in this call
    loc,            \* scan_file_structure: locals of the last examined read
    c1,             \* scan_raw_data: reads checked in R1 (-1 before the call)
    c2,             \* scan_raw_data: reads checked in R2 (-1 before the call)
    report,         \* export_scan_data_to_json: the data dict written
    shifts,         \* scan_structural_features: tag offsets found, in order
    gaps,           \* scan_structural_features: primer offsets found, in order
    args,           \* the diagnostics handed to the model
    brain,          \* the model artifact: "absent" or "present"
    input_features, \* the row handed to model.predict
    prediction,     \* the row model.predict returned
    result,         \* what consult_brain or test_interaction produced
    exc,            \* the exception consult_brain caught ("none" if none)
    json_file,      \* scan_report.json as it is on disk
    RAW_R1,         \* path of the forward read file (RAW_R2 lies beside it)
    TEMP_DIR,       \* "None", or the staging directory: "present" on
                    \* disk or "removed"
    FAST_R1,        \* the path main reads: "raw" or "staged"
    r1_file,        \* the make of the read file R1: "short", "long", or
                    \* "mixed_a" or "mixed_b" of the two read structures
    AUTO_DIAGNOSE,  \* core: the environment's AUTO_DIAGNOSE
    RUN_MODE,       \* core: the environment's RUN_MODE
    USE_ML_FILTER,  \* core: the environment's USE_ML_FILTER
    ANALYSIS_MODE,  \* core: the environment's ANALYSIS_MODE
    AI_AVAILABLE,   \* core: metatrimx_neural could be imported
    sample_strategies, \* core main: what scan_raw_data returned, or the
                    \* all-strict mapping
    choice,         \* scan_raw_data: the last selection typed at the menu
    s_idx,          \* core main: samples the processing loop has handled
    cmd_demux,      \* core main: the -g patterns of the last demultiplexing
    ran,            \* core main: the <<stage, sample>> tool runs so far
    shown,          \* scan_raw_data: the dominant patterns it printed
    ai_log,         \* core main: the rows of AI_Classification.csv
    SKLEARN_AVAILABLE, \* neural: scikit-learn could be imported
    npc,            \* neural: position of the classifier call
    fasta,          \* run_ai_classification: the lines of the file
    sequences,      \* run_hybrid_engine: its sequences argument
    ids,            \* run_hybrid_engine: its ids argument
    train,          \* run_hybrid_engine: Path A's training set
    rf_model,       \* run_hybrid_engine: the fitted forest
    svm_model,      \* run_hybrid_engine: the fitted one-class SVM
    results,        \* what the classifier returned
    n_exc           \* the exception the classifier raised ("none" if none)

coreVars == <<samples, stats_pos, stats_gap, fstat, fopen, i, reads_checked,
              loc, c1, c2, report, json_file, r1_file, RAW_R1, TEMP_DIR, FAST_R1>>

\* the environment the core and the classifier module were started in
envVars == <<AUTO_DIAGNOSE, RUN_MODE, USE_ML_FILTER, ANALYSIS_MODE,
             AI_AVAILABLE, SKLEARN_AVAILABLE>>

mainVars == <<sample_strategies, choice, s_idx, cmd_demux, ran, shown, ai_log>>

neuralVars == <<npc, fasta, sequences, ids, train, rf_model, svm_model,
                results, n_exc>>

brainVars == <<shifts, gaps, args, brain, input_features, prediction, result,
               exc>>

-----------------------------------------------------------------------------
(* Bounds of the model *)

\* lines a read file holds at most (reads sit at line 1, 5, ...)
MaxLines == 6

\* reads of the first and of the second structure in a mixed read file
MixFirst == 60

MixSecond == 40

-----------------------------------------------------------------------------
(* Python text operations *)

Min(a, b) == IF a < b THEN a ELSE b

Max(a, b) == IF a > b THEN a ELSE b

\* "N" * n
Rep(ch, n) == [k \in 1..n |-> ch]

\* s[a:b] for 0 <= a, 0 <= b
Slice(s, a, b) ==
    IF a >= Min(b, Len(s)) THEN <<>> ELSE SubSeq(s, a + 1, Min(b, Len(s)))

\* s[a:]
SliceFrom(s, a) == Slice(s, a, Len(s))

\* str.find: the lowest index at which t occurs in s, -1 when it does not
Find(s, t) ==
    LET hits == {p \in 0..(Len(s) - Len(t)) : SubSeq(s, p + 1, p + Len(t)) = t}
    IN  IF hits = {} THEN -1 ELSE CHOOSE p \in hits : \A q \in hits : p <= q

UpperChar(ch) ==
    CASE ch = "a" -> "A"
      [] ch = "c" -> "C"
      [] ch = "g" -> "G"
      [] ch = "t" -> "T"
      [] ch = "n" -> "N"
      [] OTHER -> ch

\* str.upper
Upper(s) == [k \in 1..Len(s) |-> UpperChar(s[k])]

IsSpace(ch) == ch \in {" ", "\n"}

\* str.strip: leading and trailing whitespace removed
Strip(s) ==
    LET keep == {k \in 1..Len(s) : ~IsSpace(s[k])}
    IN  IF keep = {} THEN <<>>
        ELSE LET lo == CHOOSE k \in keep : \A m \in keep : k <= m
                 hi == CHOOSE k \in keep : \A m \in keep : k >= m
             IN  SubSeq(s, lo, hi)

-----------------------------------------------------------------------------
(* Python dict and collections.Counter, insertion-ordered *)

Keys(d) == {d[k][1] : k \in 1..Len(d)}

KeyList(d) == [k \in 1..Len(d) |-> d[k][1]]

HasKey(d, key) == key \in Keys(d)

\* d[key] for a key that is present
Get(d, key) == d[CHOOSE k \in 1..Len(d) : d[k][1] = key][2]

\* d[key] = val: a present key keeps its place, a new key goes last
DictSet(d, key, val) ==
    IF HasKey(d, key)
    THEN [k \in 1..Len(d) |-> IF d[k][1] = key THEN <<key, val>> ELSE d[k]]
    ELSE Append(d, <<key, val>>)

\* Counter.__getitem__: a missing key reads as 0 and is not inserted
Count(cnt, key) == IF HasKey(cnt, key) THEN Get(cnt, key) ELSE 0

\* cnt[key] += 1
Incr(cnt, key) == DictSet(cnt, key, Count(cnt, key) + 1)

RECURSIVE Total(_)
\* sum(cnt.values())
Total(cnt) == IF cnt = <<>> THEN 0 ELSE cnt[1][2] + Total(Tail(cnt))

\* faulty variant of MostCommon1: the last inserted key among those of
\* highest count
MostCommon1_Last(cnt) ==
    IF cnt = <<>> THEN <<>>
    ELSE LET best == CHOOSE k \in 1..Len(cnt) :
                        /\ \A m \in 1..Len(cnt) : cnt[m][2] <= cnt[k][2]
                        /\ \A m \in (k + 1)..Len(cnt) : cnt[m][2] < cnt[k][2]
         IN  <<cnt[best]>>

\* Counter.most_common(1): the first inserted key among those of highest count
MostCommon1(cnt) ==
    IF cnt = <<>> THEN <<>>
    ELSE LET best == CHOOSE k \in 1..Len(cnt) :
                        /\ \A m \in 1..Len(cnt) : cnt[m][2] <= cnt[k][2]
                        /\ \A m \in 1..(k - 1) : cnt[m][2] < cnt[k][2]
         IN  <<cnt[best]>>

-----------------------------------------------------------------------------
(* Program constants of the scanner *)

\* seq[:60]
StartRegion == 60

\* tag_pos <= 10
MaxTagPos == 10

\* start_region[tag_end : tag_end + 30]
PrimerWindow == 30

\* p[:6], p[6:12] and the correction match_b - 6
SeedLen == 6

\* gap_idx >= -5
MinGap == -5

\* if reads_checked >= 10000: break
ScanCap == 10000

\* lines a long read file holds at most: enough for the cap to be met
LongLines == 4 * ScanCap + MaxLines

-----------------------------------------------------------------------------
(* Inputs: tags, primers and the lines a read file may hold *)

T1 == <<"A", "C", "G", "A">>

T2 == <<"G", "T", "C", "T">>

T1lower == <<"a", "c", "g", "a">>

P1 == <<"A", "G", "G", "T", "C", "A", "T", "T", "G", "C", "A", "A", "C", "C">>

P2 == <<"C", "C", "T", "A", "G", "G", "A", "T", "C", "G", "T", "T", "A", "A">>

P3 == <<"G", "G", "A", "T", "T", "C", "C", "A", "G", "T", "G", "A", "C", "C">>

Pshort == <<"T", "T", "A", "A", "C", "C", "G", "G">>

\* FWD_PRIMER_1, FWD_PRIMER_2, REV_PRIMER_1, REV_PRIMER_2 of the environment
P_FWD_1 == P1

P_FWD_2 == P2

P_REV_1 == P3

P_REV_2 == Pshort

\* SAMPLE_DATA as main parses it: two samples, or two samples sharing a tag
SampleConfigs ==
    { << <<"S1", T1>>, <<"S2", T2>> >>,
      << <<"S1", T1>>, <<"S2", T1lower>> >> }

\* a run of one sample, and the sample lists a scan may be given
OneSample == << <<"S1", T1>> >>

\* a sample list that names one id twice
RepeatedId == << <<"S1", T1>>, <<"S1", T2>> >>

ScannedConfigs == SampleConfigs \cup {OneSample, RepeatedId}

N(n) == Rep("N", n)

\* the reads of the model: no tag; tag at offsets 0, 2, 3, 10 and 11; both
\* tags; the primer whole, after a gap, cut at its head by 1, 3, 5 and 6
\* bases, beyond the window; the second primer; the reverse primer
ReadPool ==
    { N(6),
      T1 \o P1 \o N(2),
      N(3) \o T1 \o N(2) \o P1,
      N(10) \o T1 \o SliceFrom(P1, 1),
      N(11) \o T1 \o P1,
      N(1) \o T2 \o N(1) \o T1 \o P1,
      T2 \o SliceFrom(P1, 5) \o N(2),
      T2 \o SliceFrom(P1, 6) \o N(2),
      N(2) \o T1 \o SliceFrom(P1, 3),
      T1 \o N(26) \o P1,
      T1 \o N(1) \o P2,
      T1 \o SliceFrom(P1, 1) \o P2,
      <<"n", "n", "n">> \o T1lower \o N(2) \o P1,
      T2 \o N(4) \o P3,
      T1 \o P3 }

\* a line as the file iterator yields it
Lines == {r \o <<"\n">> : r \in ReadPool}

Files == {"R1", "R2"}

\* the reads a reverse file of the model may hold
R2Pool ==
    { N(6),
      T1 \o P1 \o N(2),
      T2 \o N(4) \o P3,
      T1 \o P3 }

\* the lines a short file of the model may hold
LinesOf(f) == IF f = "R1" THEN Lines ELSE {r \o <<"\n">> : r \in R2Pool}

\* the read a long file repeats
LongLine == T1 \o P1 \o N(2) \o <<"\n">>

\* the two read structures of a mixed file: the tag at offset 0 with the
\* primer right behind it, and the tag at offset 3 with the primer 2 bases on
ReadA == T1 \o P1 \o N(2)

ReadB == N(3) \o T1 \o N(2) \o P1

\* line at of a mixed file, which holds MixFirst reads of the first and
\* MixSecond reads of the second structure: in "mixed_a" those of the first
\* structure come first, in "mixed_b" those of the second
MixedLine(make, at) ==
    IF make = "mixed_a"
    THEN (IF at \div 4 < MixFirst THEN ReadA ELSE ReadB) \o <<"\n">>
    ELSE (IF at \div 4 < MixSecond THEN ReadB ELSE ReadA) \o <<"\n">>

-----------------------------------------------------------------------------
(* scan_file_structure: the pure part *)

Sids(samples_list) == {samples_list[k][1] : k \in 1..Len(samples_list)}

RECURSIVE tag_to_sample_KeepsFirst(_, _, _)
\* faulty variant of tag_to_sample_from: a tag stays with its first sample
tag_to_sample_KeepsFirst(samples_list, k, d) ==
    IF k > Len(samples_list) THEN d
    ELSE tag_to_sample_KeepsFirst(samples_list, k + 1,
            IF HasKey(d, Upper(samples_list[k][2])) THEN d
            ELSE DictSet(d, Upper(samples_list[k][2]), samples_list[k][1]))

RECURSIVE tag_to_sample_from(_, _, _)
tag_to_sample_from(samples_list, k, d) ==
    IF k > Len(samples_list) THEN d
    ELSE tag_to_sample_from(samples_list, k + 1,
            DictSet(d, Upper(samples_list[k][2]), samples_list[k][1]))

\* {s[1].upper(): s[0] for s in samples_list}
tag_to_sample(samples_list) == tag_to_sample_from(samples_list, 1, <<>>)

\* list(tag_to_sample.keys())
check_tags(samples_list) == KeyList(tag_to_sample(samples_list))

\* the (seed A, seed B) pairs of the primers of length >= 12
seeds(primer_list) ==
    LET usable == SelectSeq(primer_list, LAMBDA p : p # <<>> /\ Len(p) >= 2 * SeedLen)
    IN  [k \in 1..Len(usable) |->
            <<Upper(Slice(usable[k], 0, SeedLen)),
              Upper(Slice(usable[k], SeedLen, 2 * SeedLen))>>]

\* [p for p in [P_FWD_1, P_FWD_2] if p]
fwds == SelectSeq(<<P_FWD_1, P_FWD_2>>, LAMBDA p : p # <<>>)

\* [p for p in [P_REV_1, P_REV_2] if p]
revs == SelectSeq(<<P_REV_1, P_REV_2>>, LAMBDA p : p # <<>>)

\* faulty variant of TagAccept: the offset limit is dropped
TagAccept_AnyOffset(tag_pos) == tag_pos # -1

\* tag_pos != -1 and tag_pos <= 10
TagAccept(tag_pos) == tag_pos # -1 /\ tag_pos <= MaxTagPos

RECURSIVE TagLoop(_, _, _, _)
\* for tag in check_tags: the first accepted tag ends the loop
TagLoop(start_region, tags, k, last) ==
    IF k > Len(tags) THEN last
    ELSE LET tag_pos == Find(start_region, tags[k])
             now == [tag |-> tags[k], tag_pos |-> tag_pos, hit |-> TagAccept(tag_pos)]
         IN  IF now.hit THEN now ELSE TagLoop(start_region, tags, k + 1, now)

\* the gap one primer's seeds imply: seed A's index, else seed B's index - 6
SeedGap(search_window, sa, sb) ==
    LET gap_a == Find(search_window, sa)
        match_b == Find(search_window, sb)
    IN  IF gap_a # -1 THEN gap_a
        ELSE IF match_b # -1 THEN match_b - SeedLen ELSE -1

\* gap_idx != -1 and gap_idx >= -5
GapAccept(gap_idx) == gap_idx # -1 /\ gap_idx >= MinGap

\* faulty variant of FinalGap: small negatives are not normalised
FinalGap_Raw(gap_idx) == gap_idx

\* final_gap = max(0, gap_idx)
FinalGap(gap_idx) == Max(0, gap_idx)

RECURSIVE GapLoop(_, _, _, _)
\* for (sa, sb) in seeds: the first accepted gap ends the loop
GapLoop(search_window, sds, k, last) ==
    IF k > Len(sds) THEN last
    ELSE LET gap_idx == SeedGap(search_window, sds[k][1], sds[k][2])
         IN  IF GapAccept(gap_idx)
             THEN [found_primer |-> TRUE, gap_idx |-> gap_idx,
                   final_gap |-> FinalGap(gap_idx)]
             ELSE GapLoop(search_window, sds, k + 1,
                          [last EXCEPT !.gap_idx = gap_idx])

\* the locals before any read was examined
NoLoc ==
    [seq |-> <<>>, tag |-> <<>>, tag_pos |-> -1, hit |-> FALSE, sid |-> "",
     search_window |-> <<>>, found_primer |-> FALSE, gap_idx |-> -1,
     final_gap |-> -1]

\* one pass of the loop body on a sequence line: the locals it leaves
ExamineRead(line, samples_list, primer_list) ==
    LET seq == Upper(Strip(line))
        start_region == Slice(seq, 0, StartRegion)
        t == TagLoop(start_region, check_tags(samples_list), 1,
                     [tag |-> <<>>, tag_pos |-> -1, hit |-> FALSE])
        tag_end == t.tag_pos + Len(t.tag)
        search_window == Slice(start_region, tag_end, tag_end + PrimerWindow)
        g == GapLoop(search_window, seeds(primer_list), 1,
                     [found_primer |-> FALSE, gap_idx |-> -1, final_gap |-> -1])
    IN  IF t.hit
        THEN [seq |-> seq, tag |-> t.tag, tag_pos |-> t.tag_pos, hit |-> TRUE,
              sid |-> Get(tag_to_sample(samples_list), t.tag),
              search_window |-> search_window, found_primer |-> g.found_primer,
              gap_idx |-> g.gap_idx, final_gap |-> g.final_gap]
        ELSE [NoLoc EXCEPT !.seq = seq, !.tag = t.tag, !.tag_pos = t.tag_pos]

\* faulty variant of RecordPos: the end of the tag is recorded, not its start
RecordPos_TagEnd(pos, r) ==
    IF r.hit THEN [pos EXCEPT ![r.sid] = Incr(@, r.tag_pos + Len(r.tag))] ELSE pos

\* stats_pos[sid][tag_pos] += 1
RecordPos(pos, r) ==
    IF r.hit THEN [pos EXCEPT ![r.sid] = Incr(@, r.tag_pos)] ELSE pos

\* faulty variant of RecordGap: a primer that was not found records nothing
RecordGap_SkipsNotFound(gap, r) ==
    IF r.hit /\ r.found_primer THEN [gap EXCEPT ![r.sid] = Incr(@, r.final_gap)]
    ELSE gap

\* stats_gap[sid][final_gap] += 1, or stats_gap[sid][-1] += 1 if not found_primer
RecordGap(gap, r) ==
    IF ~r.hit THEN gap
    ELSE IF r.found_primer THEN [gap EXCEPT ![r.sid] = Incr(@, r.final_gap)]
    ELSE [gap EXCEPT ![r.sid] = Incr(@, -1)]

\* faulty variant of OnScanException: the exception reaches the caller
OnScanException_Propagates(rc) == [raised |-> TRUE, ret |-> rc]

\* except: pass, then return reads_checked
OnScanException(rc) == [raised |-> FALSE, ret |-> rc]

\* no diagnostics yet
NoArgs == [q30 |-> 0, shift |-> 0, gap |-> 0, length |-> 0]

\* nothing produced yet
NoResult == [kind |-> "none", value |-> <<>>]

-----------------------------------------------------------------------------
(* scan_raw_data of the core: the two scans and the export *)

Scanning == prog = "core" /\ pc \in {"scan_R1", "scan_R2"}

CurFile == IF pc = "scan_R1" THEN "R1" ELSE "R2"

\* R1 is scanned with the forward primers, R2 with the reverse primers
PrimersOf(f) == IF f = "R1" THEN fwds ELSE revs

\* the loop body on every line of the model, computed once
Examined ==
    [cfg \in ScannedConfigs |->
        [f \in Files |->
            [line \in Lines |-> ExamineRead(line, cfg, PrimersOf(f))]]]

\* faulty variant of CapReached: the sampling cap is never met
CapReached_Never(rc) == FALSE

\* if reads_checked >= 10000: break
CapReached(rc) == rc >= ScanCap

\* the file being scanned is a long one, a mixed one
IsLong == r1_file = "long" /\ CurFile = "R1"

IsMixed == r1_file \in {"mixed_a", "mixed_b"} /\ CurFile = "R1"

\* the lines the open file holds at most
FileLines ==
    IF IsLong THEN LongLines
    ELSE IF IsMixed THEN 4 * (MixFirst + MixSecond) ELSE MaxLines

\* what the next line of the open file may be
NextLines ==
    IF IsLong THEN {LongLine}
    ELSE IF IsMixed THEN {MixedLine(r1_file, i)} ELSE LinesOf(CurFile)

\* scan_file_structure returns rc, or lets an exception through
ScanReturn(out) ==
    /\ fopen' = FALSE
    /\ IF out.raised
       THEN pc' = "crashed" /\ UNCHANGED <<c1, c2>>
       ELSE IF pc = "scan_R1"
            THEN pc' = "scan_R2" /\ c1' = out.ret /\ c2' = c2
            ELSE pc' = "export" /\ c2' = out.ret /\ c1' = c1

\* check_file_format opens the file
ScanOpen ==
    /\ Scanning /\ ~fopen /\ fstat[CurFile] = "pending"
    /\ fopen' = TRUE
    /\ fstat' = [fstat EXCEPT ![CurFile] = "ok"]
    /\ i' = 0
    /\ reads_checked' = 0
    /\ UNCHANGED <<prog, pc, samples, stats_pos, stats_gap, loc, c1, c2, report, json_file,
                   r1_file, RAW_R1, TEMP_DIR, FAST_R1>>
    /\ UNCHANGED brainVars
    /\ UNCHANGED <<envVars, mainVars, neuralVars>>

\* check_file_format raises: the file is missing or cannot be opened
ScanOpenFail ==
    /\ Scanning /\ ~fopen /\ fstat[CurFile] = "pending"
    /\ fstat' = [fstat EXCEPT ![CurFile] = "missing"]
    /\ i' = 0
    /\ reads_checked' = 0
    /\ ScanReturn(OnScanException(0))
    /\ UNCHANGED <<prog, samples, stats_pos, stats_gap, loc, report, json_file, r1_file, RAW_R1, TEMP_DIR, FAST_R1>>
    /\ UNCHANGED brainVars
    /\ UNCHANGED <<envVars, mainVars, neuralVars>>

\* one pass of "for i, line in enumerate(f)"
ScanLine ==
    /\ Scanning /\ fopen /\ i < FileLines
    /\ i' = i + 1
    /\ IF i % 4 = 1
       THEN \E line \in NextLines :
              LET r == Examined[samples][CurFile][line] IN
              /\ loc' = r
              /\ stats_pos' = RecordPos(stats_pos, r)
              /\ stats_gap' = RecordGap(stats_gap, r)
              /\ reads_checked' = reads_checked + 1
              /\ IF CapReached(reads_checked + 1)
                 THEN ScanReturn([raised |-> FALSE, ret |-> reads_checked + 1])
                 ELSE UNCHANGED <<pc, fopen, c1, c2>>
       ELSE UNCHANGED <<loc, stats_pos, stats_gap, reads_checked, pc, fopen, c1, c2>>
    /\ UNCHANGED <<prog, samples, fstat, report, json_file, r1_file, RAW_R1, TEMP_DIR, FAST_R1>>
    /\ UNCHANGED brainVars
    /\ UNCHANGED <<envVars, mainVars, neuralVars>>

\* reading the next line raises (a corrupt archive, an undecodable byte);
\* a long file of the model fails within its first lines or not at all
ScanReadFail ==
    /\ Scanning /\ fopen /\ (IsLong \/ IsMixed => i <= MaxLines)
    /\ fstat' = [fstat EXCEPT ![CurFile] = IF i = 0 THEN "unreadable" ELSE "broken"]
    /\ ScanReturn(OnScanException(reads_checked))
    /\ UNCHANGED <<prog, samples, stats_pos, stats_gap, i, reads_checked, loc,
                   report, json_file, r1_file, RAW_R1, TEMP_DIR, FAST_R1>>
    /\ UNCHANGED brainVars
    /\ UNCHANGED <<envVars, mainVars, neuralVars>>

\* the file ends; a long file of the model holds nearly ScanCap reads or
\* more, a mixed one exactly its reads
ScanEOF ==
    /\ Scanning /\ fopen
    /\ IsLong => i >= 4 * (ScanCap - 1)
    /\ IsMixed => i = FileLines
    /\ ScanReturn([raised |-> FALSE, ret |-> reads_checked])
    /\ UNCHANGED <<prog, samples, stats_pos, stats_gap, fstat, i, reads_checked,
                   loc, report, json_file, r1_file, RAW_R1, TEMP_DIR, FAST_R1>>
    /\ UNCHANGED brainVars
    /\ UNCHANGED <<envVars, mainVars, neuralVars>>

\* the decimal digit d as text
Digit(d) == <<"0", "1", "2", "3", "4", "5", "6", "7", "8", "9">>[d + 1]

RECURSIVE DumpNat(_)
\* the digits of a natural number
DumpNat(n) == IF n < 10 THEN <<Digit(n)>> ELSE Append(DumpNat(n \div 10), Digit(n % 10))

\* faulty variant of DumpInt: the sign is lost
DumpInt_Unsigned(n) == IF n < 0 THEN DumpNat(-n) ELSE DumpNat(n)

\* json.dump of an int: its decimal text
DumpInt(n) == IF n < 0 THEN <<"-">> \o DumpNat(-n) ELSE DumpNat(n)

\* json.dump of a dict with int keys: the keys become strings
DumpCounts(cnt) == [k \in 1..Len(cnt) |-> <<DumpInt(cnt[k][1]), DumpInt(cnt[k][2])>>]

\* json.dump(data, f, indent=4): the members of every entry as JSON text
JsonDump(data) ==
    [k \in 1..Len(data) |->
        <<data[k][1],
          [tag |-> data[k][2].tag,
           tag_shift_mode |-> DumpInt(data[k][2].tag_shift_mode),
           primer_gap_mode |-> DumpInt(data[k][2].primer_gap_mode),
           raw_pos_counts |-> DumpCounts(data[k][2].raw_pos_counts),
           raw_gap_counts |-> DumpCounts(data[k][2].raw_gap_counts)]>>]

\* no file yet
NoJson == <<>>

\* the value of a decimal digit
DigitValue(ch) == CHOOSE d \in 0..9 : Digit(d) = ch

RECURSIVE LoadNat(_)
\* the number a run of digits stands for
LoadNat(text) ==
    IF Len(text) = 1 THEN DigitValue(text[1])
    ELSE 10 * LoadNat(SubSeq(text, 1, Len(text) - 1)) + DigitValue(text[Len(text)])

\* json.load of a number
LoadInt(text) == IF text[1] = "-" THEN -LoadNat(Tail(text)) ELSE LoadNat(text)

\* json.load of an object: the keys stay strings, the numbers are ints again
LoadCounts(obj) == [k \in 1..Len(obj) |-> <<obj[k][1], LoadInt(obj[k][2])>>]

\* the record a reader of scan_report.json gets
ReloadReport(file) ==
    [k \in 1..Len(file) |->
        <<file[k][1],
          [tag |-> file[k][2].tag,
           tag_shift_mode |-> LoadInt(file[k][2].tag_shift_mode),
           primer_gap_mode |-> LoadInt(file[k][2].primer_gap_mode),
           raw_pos_counts |-> LoadCounts(file[k][2].raw_pos_counts),
           raw_gap_counts |-> LoadCounts(file[k][2].raw_gap_counts)]>>]

\* dom = counter.most_common(1); dom[0][0] if dom else default
Dominant(cnt, default) ==
    LET dom == MostCommon1(cnt) IN IF dom # <<>> THEN dom[1][1] ELSE default

RECURSIVE ExportData(_, _, _, _, _)
\* the loop of export_scan_data_to_json filling data[sid]
ExportData(samples_list, pos, gap, k, data) ==
    IF k > Len(samples_list) THEN data
    ELSE LET sid == samples_list[k][1]
             entry == [tag |-> samples_list[k][2],
                       tag_shift_mode |-> Dominant(pos[sid], 0),
                       primer_gap_mode |-> Dominant(gap[sid], -1),
                       raw_pos_counts |-> pos[sid],
                       raw_gap_counts |-> gap[sid]]
         IN  ExportData(samples_list, pos, gap, k + 1, DictSet(data, sid, entry))

\* export_scan_data_to_json; the locals of the two scans are gone by now
ExportScan ==
    /\ prog = "core" /\ pc = "export"
    /\ report' = ExportData(samples, stats_pos, stats_gap, 1, <<>>)
    /\ json_file' = JsonDump(report')
    /\ pc' = "exported"
    /\ i' = 0
    /\ reads_checked' = 0
    /\ loc' = NoLoc
    /\ UNCHANGED <<prog, samples, stats_pos, stats_gap, fstat, fopen, c1, c2,
                   r1_file, RAW_R1, TEMP_DIR, FAST_R1>>
    /\ UNCHANGED brainVars
    /\ UNCHANGED <<envVars, mainVars, neuralVars>>

-----------------------------------------------------------------------------
(* The classifier of metatrimx_neural.py.  Probabilities and scores are      *)
(* integers counted in thousandths, as all decimals are.                     *)

\* top_limit = max(20, ...)
MinTop == 20

\* int(len(sequences) * 0.2), as fifths
TopShare == 5

\* random.choices([...], k=200)
NoiseLen == 200

\* extract_kmers(seq, k=5)
KmerLen == 5

\* PCA(n_components=10)
PcaComponents == 10

\* verdict: score > 0.5
RealAbove == 500

\* the bases random.choices draws from
Bases == <<"A", "C", "G", "T">>

\* seq.count(ch)
CountChar(seq, ch) == Cardinality({k \in 1..Len(seq) : seq[k] = ch})

\* -p * log2(p) for p = count / length, a power of 1/2 in every sequence of
\* the model
PLog2(count, length) ==
    CASE count = length -> 0
      [] 2 * count = length -> 500
      [] 4 * count = length -> 500
      [] 8 * count = length -> 375
      [] 16 * count = length -> 250

RECURSIVE SumOver(_, _)
SumOver(f, S) ==
    IF S = {} THEN 0
    ELSE LET x == CHOOSE y \in S : TRUE IN f[x] + SumOver(f, S \ {x})

\* Shannon entropy over the characters that occur in seq
calculate_entropy(seq) ==
    LET cnt == {seq[k] : k \in 1..Len(seq)}
    IN  SumOver([ch \in cnt |-> PLog2(CountChar(seq, ch), Len(seq))], cnt)

\* [Sequence Length, GC Content, Shannon Entropy]
extract_features(s) ==
    LET seq == Upper(s)
        gc == IF seq # <<>>
              THEN ((CountChar(seq, "G") + CountChar(seq, "C")) * 1000) \div Len(seq)
              ELSE 0
    IN  <<Len(seq), gc, calculate_entropy(seq)>>

\* [seq[i:i+k] for i in range(len(seq)-k+1)], as the set the vocabulary keeps
extract_kmers(seq) ==
    {SubSeq(seq, p, p + KmerLen - 1) : p \in 1..(Len(seq) - KmerLen + 1)}

\* the vocabulary CountVectorizer fits on the sequences
Vocabulary(seqs) == UNION {extract_kmers(seqs[k]) : k \in 1..Len(seqs)}

\* max(20, int(len(sequences) * 0.2))
top_limit(n) == Max(MinTop, n \div TopShare)

\* the 200-base sequences random.choices may draw in the model
NoisePool ==
    << [k \in 1..NoiseLen |-> Bases[((k - 1) % 4) + 1]],
       [k \in 1..NoiseLen |->
           IF k <= 100 THEN "A" ELSE IF k <= 150 THEN "C"
           ELSE IF k <= 175 THEN "G" ELSE "T"] >>

\* the features of the two, computed once
NoiseFeatures == [k \in 1..2 |-> extract_features(NoisePool[k])]

\* X_noise: one feature row per input sequence
X_noise(n, seed) == [k \in 1..n |-> NoiseFeatures[((seed + k) % 2) + 1]]

\* X_train and y_train of Path A; a numpy array built from no row is 1-D
TrainingSet(seqs, seed) ==
    LET X_features == [k \in 1..Len(seqs) |-> extract_features(seqs[k])]
        noise == X_noise(Len(seqs), seed)
    IN  [X |-> Slice(X_features, 0, top_limit(Len(seqs))) \o noise,
         y |-> Rep(1, top_limit(Len(seqs))) \o Rep(0, Len(noise)),
         two_d |-> Len(seqs) > 0]

\* rf_model.fit(X_train, y_train) rejects a 1-D X and unequal lengths
FitRaises(t) == ~t.two_d \/ Len(t.X) # Len(t.y)

\* CountVectorizer rejects an empty vocabulary; PCA rejects n_components
\* above min(n_samples, n_features)
EmbedRaises(seqs) ==
    \/ Vocabulary(seqs) = {}
    \/ PcaComponents > Min(Len(seqs), Cardinality(Vocabulary(seqs)))

\* the forests of the model: the probabilities predict_proba gives, in turn
RfModels == { <<1000>>, <<0>>, <<370, 1000, 0>> }

\* the SVMs of the model: the distances decision_function gives, in turn
SvmModels == { <<500>>, <<-500>>, <<0, -500, 500>> }

\* 1 / (1 + np.exp(-d)) to the nearest thousandth, on the model's distances
Sigmoid(d) ==
    CASE d = -500 -> 378
      [] d = 0 -> 500
      [] d = 500 -> 622

\* element k of an array the model gives in turn
InTurn(cycle, k) == cycle[((k - 1) % Len(cycle)) + 1]

\* faulty variant of final_score: the score of Path A alone
final_score_PathA(rf, svm) == rf

\* (rf_probs[i] + svm_probs[i]) / 2; the model's values have an even sum
final_score(rf, svm) == (rf + svm) \div 2

\* for i, pid in enumerate(ids): results[pid] = final_score.  An id keeps
\* the place of its first occurrence and the score of its last one.
Ensemble(id_list, rf, svm) ==
    LET firsts == {k \in 1..Len(id_list) :
                     \A j \in 1..(k - 1) : id_list[j] # id_list[k]}
        nth(m) == CHOOSE k \in firsts :
                     Cardinality({j \in firsts : j < k}) = m - 1
        last(pid) == CHOOSE k \in 1..Len(id_list) :
                        /\ id_list[k] = pid
                        /\ \A j \in (k + 1)..Len(id_list) : id_list[j] # pid
    IN  [m \in 1..Cardinality(firsts) |->
            LET pid == id_list[nth(m)]
                k == last(pid)
            IN  <<pid, final_score(InTurn(rf, k), Sigmoid(InTurn(svm, k)))>>]

\* line.startswith(">")
IsHeader(line) == line # <<>> /\ line[1] = ">"

\* faulty variant of HeaderId: only the leading '>' is taken off
HeaderId_FirstOnly(header) == Strip(Tail(header))

\* header.replace(">", "").strip()
HeaderId(header) == Strip(SelectSeq(header, LAMBDA ch : ch # ">"))

RECURSIVE ParseFasta(_, _, _, _, _, _)
\* Standard FASTA Parsing: the ids and the sequences of the file's lines
ParseFasta(lines, k, header, seq, id_list, seqs) ==
    IF k > Len(lines)
    THEN IF header # <<>>
         THEN [ids |-> Append(id_list, HeaderId(header)), seqs |-> Append(seqs, seq)]
         ELSE [ids |-> id_list, seqs |-> seqs]
    ELSE IF IsHeader(lines[k])
         THEN IF header # <<>>
              THEN ParseFasta(lines, k + 1, Strip(lines[k]), <<>>,
                              Append(id_list, HeaderId(header)), Append(seqs, seq))
              ELSE ParseFasta(lines, k + 1, Strip(lines[k]), <<>>, id_list, seqs)
         ELSE ParseFasta(lines, k + 1, header, seq \o Strip(lines[k]), id_list, seqs)

\* a sequence with twelve distinct 5-mers, and one with a single 5-mer
RichSeq ==
    <<"A", "A", "C", "C", "G", "G", "T", "T", "A", "C", "G", "T", "T", "G", "C", "A">>

PoorSeq == <<"A", "A", "A", "A", "A">>

\* list sizes of the model: none, one, below, at and above 20, and a size
\* whose fifth exceeds 20
Sizes == {0, 1, 19, 20, 21, 105}

\* the (sequences, ids) arguments of the model: n times the one sequence,
\* under n distinct ids or under ids used twice
Datasets ==
    { [sequences |-> Rep(s, n),
       ids |-> [k \in 1..n |-> IF twice THEN (k + 1) \div 2 ELSE k]] :
        s \in {RichSeq, PoorSeq}, n \in Sizes, twice \in BOOLEAN }

\* the lines a short FASTA file of the model may hold
FastaLines ==
    { <<">", "A", "\n">>,
      <<">", " ", "B", ">", " ", "\n">>,
      <<"A", "C", "G", "T", "\n">>,
      <<" ", "G", "G", "T", "T", "A", "A", "C", "C", " ", "\n">>,
      <<"\n">> }

\* lines a short FASTA file holds at most
MaxFasta == 3

\* a file of 20 records ">Onn" of one line each
BigFasta ==
    [k \in 1..(2 * MinTop) |->
        IF k % 2 = 1
        THEN <<">", "O", Digit(((k + 1) \div 2) \div 10), Digit(((k + 1) \div 2) % 10), "\n">>
        ELSE RichSeq \o <<"\n">>]

\* the files of the model: no file, short files, the file of 20 records
FastaFiles ==
    {[exists |-> FALSE, lines |-> <<>>]}
    \cup {[exists |-> TRUE, lines |-> l] :
            l \in UNION {[1..m -> FastaLines] : m \in 0..MaxFasta}}
    \cup {[exists |-> TRUE, lines |-> BigFasta]}

NoFile == [exists |-> FALSE, lines |-> <<>>]

NoTrain == [X |-> <<>>, y |-> <<>>, two_d |-> FALSE]

\* the classifier is not running
NeuralIdle ==
    /\ npc = "idle"
    /\ fasta = NoFile
    /\ sequences = <<>>
    /\ ids = <<>>
    /\ train = NoTrain
    /\ rf_model = <<>>
    /\ svm_model = <<>>
    /\ results = <<>>
    /\ n_exc = "none"

Classifying == prog \in {"core", "neural"}

\* what the classifier leaves alone
NeuralFrame ==
    UNCHANGED <<prog, pc, coreVars, brainVars, envVars, mainVars>>

\* run_ai_classification: a missing file or an empty sequence list gives {},
\* otherwise the engine is called
AiClassification ==
    /\ Classifying /\ npc = "file"
    /\ LET parsed == ParseFasta(fasta.lines, 1, <<>>, <<>>, <<>>, <<>>) IN
       IF ~fasta.exists \/ parsed.seqs = <<>>
       THEN /\ results' = <<>>
            /\ npc' = "returned"
            /\ UNCHANGED <<ids, sequences>>
       ELSE /\ sequences' = parsed.seqs
            /\ ids' = parsed.ids
            /\ npc' = "engine"
            /\ UNCHANGED results
    /\ UNCHANGED <<fasta, train, rf_model, svm_model, n_exc>>
    /\ NeuralFrame

\* faulty variant of Unavailable: the engine goes on without scikit-learn
Unavailable_Ignored == FALSE

\* if not SKLEARN_AVAILABLE
Unavailable == ~SKLEARN_AVAILABLE

\* run_hybrid_engine: without scikit-learn the engine reports it and
\* returns {}
EngineStart ==
    /\ Classifying /\ npc = "engine"
    /\ IF Unavailable
       THEN results' = <<>> /\ npc' = "returned"
       ELSE results' = results /\ npc' = "path_a"
    /\ UNCHANGED <<fasta, sequences, ids, train, rf_model, svm_model, n_exc>>
    /\ NeuralFrame

\* PATH A: the training set is built and the forest is fitted;
\* RandomForestClassifier is a name only if the import succeeded
PathA ==
    /\ Classifying /\ npc = "path_a"
    /\ \E seed \in 0..1 :
          /\ train' = TrainingSet(sequences, seed)
          /\ IF ~SKLEARN_AVAILABLE
             THEN n_exc' = "NameError" /\ npc' = "raised" /\ rf_model' = rf_model
             ELSE IF FitRaises(train')
             THEN n_exc' = "ValueError" /\ npc' = "raised" /\ rf_model' = rf_model
             ELSE n_exc' = n_exc /\ npc' = "path_b" /\ rf_model' \in RfModels
    /\ UNCHANGED <<fasta, sequences, ids, svm_model, results>>
    /\ NeuralFrame

\* PATH B: the k-mer embedding, PCA and the one-class SVM
PathB ==
    /\ Classifying /\ npc = "path_b"
    /\ IF EmbedRaises(sequences)
       THEN n_exc' = "ValueError" /\ npc' = "raised" /\ svm_model' = svm_model
       ELSE n_exc' = n_exc /\ npc' = "ensemble" /\ svm_model' \in SvmModels
    /\ UNCHANGED <<fasta, sequences, ids, train, rf_model, results>>
    /\ NeuralFrame

\* ENSEMBLE CONSENSUS: the scores are averaged and returned
EnsembleConsensus ==
    /\ Classifying /\ npc = "ensemble"
    /\ results' = Ensemble(ids, rf_model, svm_model)
    /\ npc' = "returned"
    /\ UNCHANGED <<fasta, sequences, ids, train, rf_model, svm_model, n_exc>>
    /\ NeuralFrame

NeuralNext ==
    \/ AiClassification
    \/ EngineStart
    \/ PathA
    \/ PathB
    \/ EnsembleConsensus

-----------------------------------------------------------------------------
(* main of the core: diagnosis, the decision, the processing phase and the   *)
(* clustering                                                                *)

\* the environments of the model: diagnosis with the classifier switched
\* off (its default), and the classifier's switches with diagnosis off
Environments ==
    [AUTO_DIAGNOSE : {"TRUE"}, RUN_MODE : {"1", "2"}, USE_ML_FILTER : {"FALSE"},
     ANALYSIS_MODE : {"OTU"}, AI_AVAILABLE : {TRUE}, SKLEARN_AVAILABLE : {TRUE}]
    \cup
    {e \in [AUTO_DIAGNOSE : {"FALSE", "true"}, RUN_MODE : {"1", "2"},
            USE_ML_FILTER : {"TRUE", "FALSE"}, ANALYSIS_MODE : {"OTU", "ASV"},
            AI_AVAILABLE : BOOLEAN, SKLEARN_AVAILABLE : BOOLEAN] :
        ~e.AI_AVAILABLE => ~e.SKLEARN_AVAILABLE}

\* read files outside /mnt/ and under it
LocalPath == <<"/", "d", "/", "R", "1">>

MntPath == <<"/", "m", "n", "t", "/", "R", "1">>

\* the runs of the model: every environment with every sample list and
\* short read files; a diagnosis over a long R1; a diagnosis of one sample
\* over a mixed R1
CoreRuns ==
    [env : Environments, samples : SampleConfigs, r1_file : {"short"},
     RAW_R1 : {LocalPath}]
    \cup
    {[env |-> e, samples |-> << <<"S1", T1>>, <<"S2", T2>> >>, r1_file |-> "long",
      RAW_R1 |-> LocalPath] :
        e \in {x \in Environments : x.AUTO_DIAGNOSE = "TRUE" /\ x.RUN_MODE = "1"}}
    \cup
    {[env |-> e, samples |-> OneSample, r1_file |-> make, RAW_R1 |-> LocalPath] :
        e \in {x \in Environments : x.AUTO_DIAGNOSE = "TRUE" /\ x.RUN_MODE = "1"},
        make \in {"mixed_a", "mixed_b"}}
    \cup
    [env : Environments, samples : {OneSample}, r1_file : {"short"},
     RAW_R1 : {MntPath}]
    \cup
    [env : Environments, samples : {RepeatedId}, r1_file : {"short"},
     RAW_R1 : {LocalPath}]

\* what the user may type at "Enter Selection [1/2/3]"
Typed == {"1", "2", "3", "4", ""}

RECURSIVE AllSamples_ButLast(_, _, _, _)
\* faulty variant of AllSamples: the last sample of the list gets no entry
AllSamples_ButLast(samples_list, mode, k, d) ==
    IF k >= Len(samples_list) THEN d
    ELSE AllSamples_ButLast(samples_list, mode, k + 1,
                            DictSet(d, samples_list[k][1], mode))

RECURSIVE AllSamples(_, _, _, _)
\* {s[0]: mode for s in samples_list}
AllSamples(samples_list, mode, k, d) ==
    IF k > Len(samples_list) THEN d
    ELSE AllSamples(samples_list, mode, k + 1, DictSet(d, samples_list[k][1], mode))

\* a mapping scan_raw_data returned or main built
Decided(mode) == [kind |-> "dict", map |-> AllSamples(samples, mode, 1, <<>>)]

\* return None
None == [kind |-> "None", map |-> <<>>]

\* sample_strategies before main assigns it
Unset == [kind |-> "unset", map |-> <<>>]

\* faulty variant of ModeOf: selection 3 is taken for universal
ModeOf_NoRescue(ch) ==
    CASE ch = "1" -> "strict"
      [] ch = "2" -> "universal"
      [] ch = "3" -> "universal"
      [] OTHER -> ""

\* the mode a selection stands for, "" if it stands for none
ModeOf(ch) ==
    CASE ch = "1" -> "strict"
      [] ch = "2" -> "universal"
      [] ch = "3" -> "rescue"
      [] OTHER -> ""

\* faulty variant of Diagnose: the scan runs whatever AUTO_DIAGNOSE says
Diagnose_Always(flag) == TRUE

\* if AUTO_DIAGNOSE == "TRUE"
Diagnose(flag) == flag = "TRUE"

\* faulty variant of HandOver: the menu is shown whatever RUN_MODE says
HandOver_Never(mode) == FALSE

\* if RUN_MODE == "1"
HandOver(mode) == mode = "1"

\* sample_strategies.get(sample, "universal")
StrategyOf(d, sample) == IF HasKey(d, sample) THEN Get(d, sample) ELSE "universal"

\* faulty variant of DemuxPatterns: the shifts run from 1 to 6
DemuxPatterns_FromOne(strategy, tag) ==
    CASE strategy = "strict" ->
            << <<"-g", <<"^">> \o tag>>, <<"-G", <<"^">> \o tag>> >>
      [] strategy = "universal" ->
            [n \in 1..12 |->
                <<IF n % 2 = 1 THEN "-g" ELSE "-G",
                  <<"^">> \o Rep("N", (n + 1) \div 2) \o tag>>]
      [] OTHER -> << <<"-g", tag>>, <<"-G", tag>> >>

\* the -g (R1) and -G (R2) options of the demultiplexing command, in the
\* order they are appended
DemuxPatterns(strategy, tag) ==
    CASE strategy = "strict" ->
            << <<"-g", <<"^">> \o tag>>, <<"-G", <<"^">> \o tag>> >>
      [] strategy = "universal" ->
            [n \in 1..12 |->
                <<IF n % 2 = 1 THEN "-g" ELSE "-G",
                  <<"^">> \o Rep("N", (n - 1) \div 2) \o tag>>]
      [] OTHER -> << <<"-g", tag>>, <<"-G", tag>> >>

\* faulty variant of SampleStages: the pairs are merged before the primers
\* are trimmed
SampleStages_MergeFirst(sample, passed) ==
    IF passed
    THEN << <<"demux", sample>>, <<"qc", sample>>, <<"merge", sample>>,
            <<"trim", sample>>, <<"qc", sample>>, <<"filter", sample>> >>
    ELSE << <<"demux", sample>> >>

\* the tool runs of one sample: the sample is dropped if no pair passed demux
SampleStages(sample, passed) ==
    IF passed
    THEN << <<"demux", sample>>, <<"qc", sample>>, <<"trim", sample>>,
            <<"merge", sample>>, <<"qc", sample>>, <<"filter", sample>> >>
    ELSE << <<"demux", sample>> >>

\* the tool runs of the clustering
ClusterStages(mode) ==
    IF mode = "ASV"
    THEN << <<"derep", "">>, <<"cluster_unoise", "">>, <<"otutab", "">> >>
    ELSE << <<"derep", "">>, <<"cluster_fast", "">>, <<"uchime", "">>,
            <<"otutab", "">> >>

\* the .fasta files the filter step left in the final directory
total_seqs(stages) ==
    Cardinality({k \in 1..Len(stages) : stages[k][1] = "filter"})

\* the rows of AI_Classification.csv below the header
CsvRows(scores) ==
    [k \in 1..Len(scores) |->
        <<scores[k][1], scores[k][2],
          IF scores[k][2] > RealAbove THEN "Real_Biology" ELSE "Artifact">>]

RECURSIVE StructureMap(_, _, _, _, _)
\* PART 1: READ STRUCTURE MAP: the dominant shift and gap of every sample
StructureMap(samples_list, pos, gap, k, out) ==
    IF k > Len(samples_list) THEN out
    ELSE StructureMap(samples_list, pos, gap, k + 1,
            Append(out, [sid |-> samples_list[k][1],
                         shift |-> Dominant(pos[samples_list[k][1]], 0),
                         gap |-> Dominant(gap[samples_list[k][1]], -1)]))

\* the classifier and the menu while they are not in use
MainIdle ==
    /\ sample_strategies = Unset
    /\ choice = ""
    /\ s_idx = 0
    /\ cmd_demux = <<>>
    /\ ran = <<>>
    /\ shown = <<>>
    /\ ai_log = <<>>

\* what the steps of main leave alone
MainFrame ==
    UNCHANGED <<prog, samples, fstat, fopen, i, reads_checked, loc, report,
                json_file, r1_file, RAW_R1, brainVars, envVars>>

\* the locals of scan_raw_data stay as they are
ScanLocalsKept == UNCHANGED <<stats_pos, stats_gap, c1, c2>>

\* faulty variant of Lookup: a key that is looked up is a key from then on
Lookup_Inserts(cnt, key) ==
    [value |-> Count(cnt, key),
     counter |-> IF HasKey(cnt, key) THEN cnt ELSE Append(cnt, <<key, 0>>)]

\* p[key] of a Counter: the count, 0 for an absent key, and the Counter after
Lookup(cnt, key) == [value |-> Count(cnt, key), counter |-> cnt]

RECURSIVE LookupAll(_, _, _)
\* the Counter after the lookups of one table row
LookupAll(cnt, keys, k) ==
    IF k > Len(keys) THEN cnt
    ELSE LookupAll(Lookup(cnt, keys[k]).counter, keys, k + 1)

\* the offsets TABLE 1 and the gaps TABLE 2 look up for every sample
PosColumns == <<0, 1, 2, 3, 4>>

GapColumns == <<0, 1, 2, 3, -1>>

\* the histograms after PART 2 or PART 3 was printed
Tabled(stats, keys) == [sid \in DOMAIN stats |-> LookupAll(stats[sid], keys, 1)]

\* scan_raw_data has returned and main goes on: the locals are gone
ScanLocalsGone ==
    /\ stats_pos' = [sid \in Sids(samples) |-> <<>>]
    /\ stats_gap' = [sid \in Sids(samples) |-> <<>>]
    /\ c1' = -1
    /\ c2' = -1

\* main up to the diagnosis: the raw QC, then the scan or the all-strict map
\* the staging directory and the paths in use stay as they are
StagingKept == UNCHANGED <<TEMP_DIR, FAST_R1>>

\* the path lies under /mnt/
OnMnt(path) == Len(path) >= 5 /\ SubSeq(path, 1, 5) = <<"/", "m", "n", "t", "/">>

\* cleanup_staged_files: the staging directory is removed if there is one
cleanup_staged_files(dir) == IF dir = "present" THEN "removed" ELSE dir

\* stage_files_if_slow: files under /mnt/ get a temporary directory and are
\* copied into it; a copy that fails leaves main with the original paths
StageFiles ==
    /\ prog = "core" /\ pc = "main"
    /\ pc' = "staged"
    /\ IF OnMnt(RAW_R1)
       THEN /\ TEMP_DIR' = "present"
            /\ \E copied \in BOOLEAN :
                  FAST_R1' = IF copied THEN "staged" ELSE "raw"
       ELSE TEMP_DIR' = TEMP_DIR /\ FAST_R1' = "raw"
    /\ UNCHANGED <<mainVars, neuralVars>>
    /\ ScanLocalsKept
    /\ MainFrame

MainStart ==
    /\ prog = "core" /\ pc = "staged"
    /\ ran' = Append(ran, <<"qc", "raw_data">>)
    /\ IF Diagnose(AUTO_DIAGNOSE)
       THEN pc' = "scan_R1" /\ UNCHANGED sample_strategies
       ELSE pc' = "process" /\ sample_strategies' = Decided("strict")
    /\ UNCHANGED <<choice, s_idx, cmd_demux, shown, ai_log, neuralVars>>
    /\ ScanLocalsKept
    /\ MainFrame
    /\ StagingKept

\* scan_raw_data after the export: RUN_MODE "1" returns None, any other
\* mode prints the maps and the tables and shows the menu
ScanHandOver ==
    /\ prog = "core" /\ pc = "exported"
    /\ IF HandOver(RUN_MODE)
       THEN /\ pc' = "scanned"
            /\ sample_strategies' = None
            /\ ScanLocalsKept
            /\ UNCHANGED shown
       ELSE /\ pc' = "menu"
            /\ shown' = StructureMap(samples, stats_pos, stats_gap, 1, <<>>)
            /\ stats_pos' = Tabled(stats_pos, PosColumns)
            /\ stats_gap' = Tabled(stats_gap, GapColumns)
            /\ UNCHANGED <<c1, c2, sample_strategies>>
    /\ UNCHANGED <<choice, s_idx, cmd_demux, ran, ai_log>>
    /\ UNCHANGED neuralVars
    /\ MainFrame
    /\ StagingKept

\* one pass of the menu loop: 1, 2 or 3 returns the mapping, anything else
\* asks again
MenuInput ==
    /\ prog = "core" /\ pc = "menu"
    /\ \E ch \in Typed :
          /\ choice' = ch
          /\ IF ModeOf(ch) # ""
             THEN /\ pc' = "scanned"
                  /\ sample_strategies' = Decided(ModeOf(ch))
                  /\ ScanLocalsKept
             ELSE pc' = "menu" /\ UNCHANGED sample_strategies /\ ScanLocalsKept
    /\ UNCHANGED <<s_idx, cmd_demux, ran, shown, ai_log, neuralVars>>
    /\ MainFrame
    /\ StagingKept

\* except KeyboardInterrupt: sys.exit(0)
MenuInterrupt ==
    /\ prog = "core" /\ pc = "menu"
    /\ pc' = "exited"
    /\ UNCHANGED <<mainVars, neuralVars>>
    /\ ScanLocalsKept
    /\ MainFrame
    /\ StagingKept

\* input() meets the end of its input: EOFError is not caught
MenuEOF ==
    /\ prog = "core" /\ pc = "menu"
    /\ pc' = "crashed"
    /\ UNCHANGED <<mainVars, neuralVars>>
    /\ ScanLocalsKept
    /\ MainFrame
    /\ StagingKept

\* main after scan_raw_data: EXIT IF MODE 1
AfterScan ==
    /\ prog = "core" /\ pc = "scanned"
    /\ pc' = IF RUN_MODE = "1" THEN "finished" ELSE "process"
    /\ UNCHANGED <<mainVars, neuralVars>>
    /\ ScanLocalsGone
    /\ MainFrame
    /\ StagingKept

\* one pass of "for s_data in samples"
ProcessSample ==
    /\ prog = "core" /\ pc = "process" /\ s_idx < Len(samples)
    /\ LET sample == samples[s_idx + 1][1]
           tag == samples[s_idx + 1][2]
           strategy == StrategyOf(sample_strategies.map, sample)
       IN  /\ cmd_demux' = DemuxPatterns(strategy, tag)
           /\ \E passed \in BOOLEAN : ran' = ran \o SampleStages(sample, passed)
    /\ s_idx' = s_idx + 1
    /\ UNCHANGED <<pc, sample_strategies, choice, shown, ai_log, neuralVars>>
    /\ ScanLocalsKept
    /\ MainFrame
    /\ StagingKept

\* after the loop: the pooled file, the clustering, and the classifier if
\* it is switched on and was imported
Cluster ==
    /\ prog = "core" /\ pc = "process" /\ s_idx = Len(samples)
    /\ TEMP_DIR' = cleanup_staged_files(TEMP_DIR)
    /\ UNCHANGED FAST_R1
    /\ IF total_seqs(ran) > 0
       THEN /\ ran' = ran \o ClusterStages(ANALYSIS_MODE)
            /\ IF ANALYSIS_MODE # "ASV" /\ USE_ML_FILTER = "TRUE" /\ AI_AVAILABLE
               THEN /\ pc' = "classify"
                    /\ npc' = "file"
                    /\ fasta' \in FastaFiles
               ELSE pc' = "finished" /\ UNCHANGED <<npc, fasta>>
       ELSE pc' = "finished" /\ UNCHANGED <<ran, npc, fasta>>
    /\ UNCHANGED <<sample_strategies, choice, s_idx, cmd_demux, shown, ai_log>>
    /\ UNCHANGED <<sequences, ids, train, rf_model, svm_model, results, n_exc>>
    /\ ScanLocalsKept
    /\ MainFrame

\* brain.run_ai_classification returned: the scores are written and the run
\* completes
Classified ==
    /\ prog = "core" /\ pc = "classify" /\ npc = "returned"
    /\ ai_log' = CsvRows(results)
    /\ pc' = "finished"
    /\ UNCHANGED <<sample_strategies, choice, s_idx, cmd_demux, ran, shown,
                   neuralVars>>
    /\ ScanLocalsKept
    /\ MainFrame
    /\ StagingKept

\* brain.run_ai_classification raised: nothing in main catches it
ClassifyFailed ==
    /\ prog = "core" /\ pc = "classify" /\ npc = "raised"
    /\ pc' = "crashed"
    /\ UNCHANGED <<mainVars, neuralVars>>
    /\ ScanLocalsKept
    /\ MainFrame
    /\ StagingKept

\* the environment variables hold the environment e
EnvIs(e) ==
    /\ AUTO_DIAGNOSE = e.AUTO_DIAGNOSE
    /\ RUN_MODE = e.RUN_MODE
    /\ USE_ML_FILTER = e.USE_ML_FILTER
    /\ ANALYSIS_MODE = e.ANALYSIS_MODE
    /\ AI_AVAILABLE = e.AI_AVAILABLE
    /\ SKLEARN_AVAILABLE = e.SKLEARN_AVAILABLE

\* the environment of an entry point that reads none of the core's switches
NoEnvironment ==
    [AUTO_DIAGNOSE |-> "", RUN_MODE |-> "", USE_ML_FILTER |-> "",
     ANALYSIS_MODE |-> "", AI_AVAILABLE |-> FALSE, SKLEARN_AVAILABLE |-> FALSE]

\* the predictor's variables while another entry point runs
BrainIdle ==
    /\ shifts = <<>>
    /\ gaps = <<>>
    /\ args = NoArgs
    /\ brain = "absent"
    /\ input_features = <<>>
    /\ prediction = <<>>
    /\ result = NoResult
    /\ exc = "none"

CoreInit ==
    /\ prog = "core"
    /\ pc = "main"
    /\ MainIdle
    /\ NeuralIdle
    /\ \E run \in CoreRuns :
          /\ EnvIs(run.env)
          /\ samples = run.samples
          /\ r1_file = run.r1_file
          /\ RAW_R1 = run.RAW_R1
    /\ json_file = NoJson
    /\ TEMP_DIR = "None"
    /\ FAST_R1 = "unset"
    /\ stats_pos = [sid \in Sids(samples) |-> <<>>]
    /\ stats_gap = [sid \in Sids(samples) |-> <<>>]
    /\ fstat = [f \in Files |-> "pending"]
    /\ fopen = FALSE
    /\ i = 0
    /\ reads_checked = 0
    /\ loc = NoLoc
    /\ c1 = -1
    /\ c2 = -1
    /\ report = <<>>
    /\ BrainIdle

CoreNext ==
    \/ ScanOpen
    \/ ScanOpenFail
    \/ ScanLine
    \/ ScanReadFail
    \/ ScanEOF
    \/ ExportScan
    \/ StageFiles
    \/ MainStart
    \/ ScanHandOver
    \/ MenuInput
    \/ MenuInterrupt
    \/ MenuEOF
    \/ AfterScan
    \/ ProcessSample
    \/ Cluster
    \/ Classified
    \/ ClassifyFailed
    \/ NeuralNext

-----------------------------------------------------------------------------
(* scan_structural_features of the compiler *)

\* scan_limit = 20000
ScanLimit == 20000

\* pos < 25
TagWindow == 25

\* seq[search_start : search_start + 60]
StubWindow == 60

\* p1_seq[:10]
StubLen == 10

\* PRIMER_F_1 and PRIMER_F_2 of the environment
PRIMER_F_1 == P1

PRIMER_F_2 == P2

\* the tags list main builds from SAMPLE_DATA
known_tags(samples_list) == [k \in 1..Len(samples_list) |-> samples_list[k][2]]

RECURSIVE FindTag(_, _, _)
\* for t in known_tags: the first tag found before offset 25
FindTag(seq, tags, k) ==
    IF k > Len(tags) THEN [found_pos |-> -1, found_len |-> 0]
    ELSE LET pos == Find(seq, Upper(tags[k]))
         IN  IF pos # -1 /\ pos < TagWindow
             THEN [found_pos |-> pos, found_len |-> Len(tags[k])]
             ELSE FindTag(seq, tags, k + 1)

\* the primer stub search after the tag: set 1, then set 2
FindStub(search_window, p1_stub, p2_stub) ==
    LET first == IF p1_stub # <<>> THEN Find(search_window, p1_stub) ELSE -1
    IN  IF first = -1 /\ p2_stub # <<>> THEN Find(search_window, p2_stub) ELSE first

\* the loop body of scan_structural_features on a sequence line
FeatureRead(line, tags, p1_seq, p2_seq) ==
    LET seq == Upper(Strip(line))
        t == FindTag(seq, tags, 1)
        search_start == t.found_pos + t.found_len
        search_window == Slice(seq, search_start, search_start + StubWindow)
    IN  [found_pos |-> t.found_pos,
         p_idx |-> IF t.found_pos # -1
                   THEN FindStub(search_window, Upper(Slice(p1_seq, 0, StubLen)),
                                 Upper(Slice(p2_seq, 0, StubLen)))
                   ELSE -1]

\* the loop body on every line of the model, computed once
Featured ==
    [cfg \in SampleConfigs |->
        [line \in Lines |-> FeatureRead(line, known_tags(cfg), PRIMER_F_1, PRIMER_F_2)]]

Occurrences(list, v) == Cardinality({k \in 1..Len(list) : list[k] = v})

\* int(statistics.mode(list)) with its fallback int(list[0]): the first of the
\* most frequent values; before Python 3.8 several modes raise, giving list[0]
ModeOrFirst(list, legacy) ==
    LET modes == {k \in 1..Len(list) :
                    \A m \in 1..Len(list) :
                        Occurrences(list, list[m]) <= Occurrences(list, list[k])}
        first == CHOOSE k \in modes : \A m \in modes : k <= m
    IN  IF legacy /\ Cardinality({list[k] : k \in modes}) > 1
        THEN list[1] ELSE list[first]

\* Feature 1: Shift Mode
final_shift(list, legacy) == IF list = <<>> THEN 0 ELSE ModeOrFirst(list, legacy)

\* Feature 2: Primer Gap
final_gap(list, legacy) == IF list = <<>> THEN 0 ELSE ModeOrFirst(list, legacy)

\* q30 rates run_fastp_diagnostics may report (0.85 is its fallback)
Q30Set == {850, 973}

\* mean read lengths run_fastp_diagnostics may report (250 is its fallback)
LenSet == {250, 151}

FeatScanning == prog = "compiler" /\ pc = "c_scan"

\* open(r1, 'r') succeeds
FeatOpen ==
    /\ FeatScanning /\ ~fopen /\ fstat["R1"] = "pending"
    /\ fopen' = TRUE
    /\ fstat' = [fstat EXCEPT !["R1"] = "ok"]
    /\ i' = 0
    /\ UNCHANGED <<prog, pc, samples, stats_pos, stats_gap, reads_checked, loc,
                   c1, c2, report, json_file, r1_file, RAW_R1, TEMP_DIR, FAST_R1>>
    /\ UNCHANGED brainVars
    /\ UNCHANGED <<envVars, mainVars, neuralVars>>

\* open(r1, 'r') or a later read raises: nothing in the compiler catches it
FeatFail ==
    /\ FeatScanning /\ fstat["R1"] \in {"pending", "ok"}
    /\ fstat' = [fstat EXCEPT !["R1"] = IF fopen THEN "broken" ELSE "missing"]
    /\ fopen' = FALSE
    /\ pc' = "crashed"
    /\ UNCHANGED <<prog, samples, stats_pos, stats_gap, i, reads_checked, loc,
                   c1, c2, report, json_file, r1_file, RAW_R1, TEMP_DIR, FAST_R1>>
    /\ UNCHANGED brainVars
    /\ UNCHANGED <<envVars, mainVars, neuralVars>>

\* one pass of "for i, line in enumerate(f)" below the scan limit
FeatLine ==
    /\ FeatScanning /\ fopen /\ i < MaxLines /\ i < ScanLimit * 4
    /\ i' = i + 1
    /\ IF i % 4 = 1
       THEN \E line \in Lines :
              LET r == Featured[samples][line] IN
              /\ shifts' = IF r.found_pos # -1 THEN Append(shifts, r.found_pos)
                           ELSE shifts
              /\ gaps' = IF r.found_pos # -1 /\ r.p_idx # -1
                         THEN Append(gaps, r.p_idx) ELSE gaps
       ELSE UNCHANGED <<shifts, gaps>>
    /\ UNCHANGED <<prog, pc, samples, stats_pos, stats_gap, fstat, fopen,
                   reads_checked, loc, c1, c2, report, json_file, r1_file, RAW_R1, TEMP_DIR, FAST_R1>>
    /\ UNCHANGED <<args, brain, input_features, prediction, result, exc>>
    /\ UNCHANGED <<envVars, mainVars, neuralVars>>

\* the file ends (or the limit is met): the features are returned to main,
\* which hands them to consult_brain with the fastp metrics
FeatReturn ==
    /\ FeatScanning /\ fopen
    /\ fopen' = FALSE
    /\ \E legacy \in BOOLEAN, q30 \in Q30Set, avg_len \in LenSet :
          args' = [q30 |-> q30, shift |-> final_shift(shifts, legacy),
                   gap |-> final_gap(gaps, legacy), length |-> avg_len]
    /\ pc' = "consult"
    /\ UNCHANGED <<prog, samples, stats_pos, stats_gap, fstat, i, reads_checked,
                   loc, c1, c2, report, json_file, r1_file, RAW_R1, TEMP_DIR, FAST_R1>>
    /\ UNCHANGED <<shifts, gaps, brain, input_features, prediction, result, exc>>
    /\ UNCHANGED <<envVars, mainVars, neuralVars>>

-----------------------------------------------------------------------------
(* consult_brain of the compiler and test_interaction of the trainer *)

\* FEATURES of the trainer: the columns the model was fitted on
FEATURES == <<"q30_score", "tag_shift_mode", "primer_gap", "avg_read_len">>

\* TARGETS of the trainer: the columns the model predicts
TARGETS ==
    <<"best_demux_e", "best_trim_e", "best_merge_diffs", "best_max_ee",
      "best_min_len", "best_qual_cutoff", "best_min_overlap">>

\* round to the nearest multiple of unit, an exact half to the even multiple
RoundTo(v, unit) ==
    LET q == v \div unit
        r == v % unit
    IN  IF 2 * r < unit THEN q * unit
        ELSE IF 2 * r > unit THEN (q + 1) * unit
        ELSE IF q % 2 = 0 THEN q * unit ELSE (q + 1) * unit

\* round(float(x), 2) on thousandths
Round2(v) == RoundTo(v, 10)

\* round(float(x), 1) on thousandths
Round1(v) == RoundTo(v, 100)

\* int(x) on thousandths: the fraction is cut off, towards zero
IntCast(v) == IF v >= 0 THEN v \div 1000 ELSE -((-v) \div 1000)

\* np.array([[q30, shift, gap, length]]): whole numbers become thousandths
FeatureRow(a) == <<a.q30, a.shift * 1000, a.gap * 1000, a.length * 1000>>

\* faulty variant of Unpack: columns 2 and 3 are read in each other's place
Unpack_Misindexed(row) ==
    [p_demux |-> Round2(row[1]),
     p_trim |-> Round2(row[2]),
     p_merge |-> IntCast(row[4]),
     p_maxee |-> Round1(row[3]),
     p_min_len |-> IntCast(row[5]),
     p_qual |-> IntCast(row[6]),
     p_min_ov |-> IntCast(row[7])]

\* the 7 targets unpacked from the predicted row
Unpack(row) ==
    [p_demux |-> Round2(row[1]),
     p_trim |-> Round2(row[2]),
     p_merge |-> IntCast(row[3]),
     p_maxee |-> Round1(row[4]),
     p_min_len |-> IntCast(row[5]),
     p_qual |-> IntCast(row[6]),
     p_min_ov |-> IntCast(row[7])]

\* return p_demux, p_trim, p_merge, p_maxee, p_min_len, p_qual, p_min_ov
Returned(p) ==
    [kind |-> "returned",
     value |-> <<p.p_demux, p.p_trim, p.p_merge, p.p_maxee, p.p_min_len,
                 p.p_qual, p.p_min_ov>>]

\* return 0.15, 0.2, 10, 2.0, 50, 20, 10 # Defaults
MissingDefaults ==
    [kind |-> "returned", value |-> <<150, 200, 10, 2000, 50, 20, 10>>]

\* faulty variant of OnBrainException: the exception reaches the caller
OnBrainException_Raises(e) == [kind |-> "raised", value |-> <<>>]

\* except Exception as e: ... return 0.15, 0.2, 10, 2.0, 50, 20, 10
OnBrainException(e) ==
    [kind |-> "returned", value |-> <<150, 200, 10, 2000, 50, 20, 10>>]

\* prediction[k] for k = 0..6 raises IndexError on a shorter row
IndexError(row) == Len(row) < 7

\* a row in range; a row with an exact half, negatives and a zero
Row7 ==
    { <<183, 247, 8900, 1749, 47300, 19600, 12200>>,
      <<125, -150, -500, 2060, -2500, 0, 900>> }

\* rows model.predict may return: 7 columns, fewer, or one more
RowPool ==
    Row7 \cup {SubSeq(r, 1, n) : r \in Row7, n \in {0, 3, 6}}
         \cup {r \o <<99000>> : r \in Row7}

\* if not os.path.exists(BRAIN_FILE): return the defaults
ConsultBrain ==
    /\ prog = "compiler" /\ pc = "consult"
    /\ IF brain = "absent"
       THEN result' = MissingDefaults /\ pc' = "c_done"
       ELSE result' = result /\ pc' = "load"
    /\ UNCHANGED <<prog, coreVars, envVars, mainVars, neuralVars>>
    /\ UNCHANGED <<shifts, gaps, args, brain, input_features, prediction, exc>>

\* model = joblib.load(BRAIN_FILE); input_features = np.array(...)
BrainLoad ==
    /\ prog = "compiler" /\ pc = "load"
    /\ IF brain = "corrupt"
       THEN /\ exc' = "load"
            /\ result' = OnBrainException("load")
            /\ pc' = "c_done"
            /\ UNCHANGED input_features
       ELSE /\ input_features' = FeatureRow(args)
            /\ pc' = "predict"
            /\ UNCHANGED <<exc, result>>
    /\ UNCHANGED <<prog, coreVars, envVars, mainVars, neuralVars>>
    /\ UNCHANGED <<shifts, gaps, args, brain, prediction>>

\* prediction = model.predict(input_features)[0]
BrainPredict ==
    /\ prog = "compiler" /\ pc = "predict"
    /\ \/ /\ exc' = "predict"
          /\ result' = OnBrainException("predict")
          /\ pc' = "c_done"
          /\ UNCHANGED prediction
       \/ \E row \in RowPool :
          /\ prediction' = row
          /\ pc' = "unpack"
          /\ UNCHANGED <<exc, result>>
    /\ UNCHANGED <<prog, coreVars, envVars, mainVars, neuralVars>>
    /\ UNCHANGED <<shifts, gaps, args, brain, input_features>>

\* the 7 targets are unpacked and returned
BrainUnpack ==
    /\ prog = "compiler" /\ pc = "unpack"
    /\ IF IndexError(prediction)
       THEN exc' = "IndexError" /\ result' = OnBrainException("IndexError")
       ELSE exc' = exc /\ result' = Returned(Unpack(prediction))
    /\ pc' = "c_done"
    /\ UNCHANGED <<prog, coreVars, envVars, mainVars, neuralVars>>
    /\ UNCHANGED <<shifts, gaps, args, brain, input_features, prediction>>

\* main of the compiler, 7. UPDATE DATA: the prescription goes as it is into
\* every entry of file_data, from which the cleaning script is generated
UpdateData ==
    /\ prog = "compiler" /\ pc = "c_done" /\ result.kind = "returned"
    /\ pc' = "step1"
    /\ UNCHANGED <<prog, coreVars, envVars, mainVars, neuralVars>>
    /\ UNCHANGED brainVars

\* Parse Results of test_interaction
Parse(row) ==
    [demux_e |-> Round2(row[1]),
     trim_e |-> Round2(row[2]),
     merge_d |-> IntCast(row[3]),
     max_ee |-> Round1(row[4]),
     min_len |-> IntCast(row[5]),
     qual_cut |-> IntCast(row[6]),
     min_over |-> IntCast(row[7])]

\* the prescription test_interaction prints
Shown(p) ==
    [kind |-> "shown",
     value |-> <<p.demux_e, p.trim_e, p.merge_d, p.max_ee, p.min_len,
                 p.qual_cut, p.min_over>>]

\* what the user may type at the four prompts
TypedArgs ==
    [q30 : Q30Set, shift : {0, 2}, gap : {0, 4}, length : LenSet]

\* one round of the loop of test_interaction: four inputs, model.predict,
\* the prescription; only ValueError and KeyboardInterrupt are caught
TrainerRound ==
    /\ prog = "trainer" /\ pc = "t_prompt"
    /\ \E a \in TypedArgs :
          /\ args' = a
          /\ input_features' = FeatureRow(a)
          /\ \/ /\ pc' = "crashed"
                /\ UNCHANGED <<prediction, result>>
             \/ \E row \in RowPool :
                /\ prediction' = row
                /\ IF IndexError(row)
                   THEN pc' = "crashed" /\ result' = result
                   ELSE pc' = "t_prompt" /\ result' = Shown(Parse(row))
    /\ UNCHANGED <<prog, coreVars, envVars, mainVars, neuralVars>>
    /\ UNCHANGED <<shifts, gaps, brain, exc>>

\* the user types q, quit or exit
TrainerQuit ==
    /\ prog = "trainer" /\ pc = "t_prompt"
    /\ pc' = "t_done"
    /\ UNCHANGED <<prog, coreVars, brainVars, envVars, mainVars, neuralVars>>

CompilerInit ==
    /\ prog = "compiler"
    /\ pc = "c_scan"
    /\ samples \in SampleConfigs
    /\ stats_pos = [sid \in Sids(samples) |-> <<>>]
    /\ stats_gap = [sid \in Sids(samples) |-> <<>>]
    /\ fstat = [f \in Files |-> "pending"]
    /\ fopen = FALSE
    /\ i = 0
    /\ reads_checked = 0
    /\ loc = NoLoc
    /\ c1 = -1
    /\ c2 = -1
    /\ report = <<>>
    /\ shifts = <<>>
    /\ gaps = <<>>
    /\ args = NoArgs
    /\ brain \in {"absent", "present", "corrupt"}
    /\ input_features = <<>>
    /\ prediction = <<>>
    /\ result = NoResult
    /\ exc = "none"
    /\ r1_file = "short"
    /\ RAW_R1 = LocalPath
    /\ json_file = NoJson
    /\ TEMP_DIR = "None"
    /\ FAST_R1 = "unset"
    /\ EnvIs(NoEnvironment)
    /\ MainIdle
    /\ NeuralIdle

TrainerInit ==
    /\ prog = "trainer"
    /\ pc = "t_prompt"
    /\ samples = <<>>
    /\ stats_pos = <<>>
    /\ stats_gap = <<>>
    /\ fstat = [f \in Files |-> "pending"]
    /\ fopen = FALSE
    /\ i = 0
    /\ reads_checked = 0
    /\ loc = NoLoc
    /\ c1 = -1
    /\ c2 = -1
    /\ report = <<>>
    /\ BrainIdle
    /\ r1_file = "short"
    /\ RAW_R1 = LocalPath
    /\ json_file = NoJson
    /\ TEMP_DIR = "None"
    /\ FAST_R1 = "unset"
    /\ EnvIs(NoEnvironment)
    /\ MainIdle
    /\ NeuralIdle

\* a call of the classifier on its own: run_ai_classification on a file, or
\* run_hybrid_engine on a list of sequences and their ids
NeuralInit ==
    /\ prog = "neural"
    /\ pc = "n_call"
    /\ samples = <<>>
    /\ stats_pos = <<>>
    /\ stats_gap = <<>>
    /\ fstat = [f \in Files |-> "pending"]
    /\ fopen = FALSE
    /\ i = 0
    /\ reads_checked = 0
    /\ loc = NoLoc
    /\ c1 = -1
    /\ c2 = -1
    /\ report = <<>>
    /\ BrainIdle
    /\ r1_file = "short"
    /\ RAW_R1 = LocalPath
    /\ json_file = NoJson
    /\ TEMP_DIR = "None"
    /\ FAST_R1 = "unset"
    /\ \E ok \in BOOLEAN :
          EnvIs([NoEnvironment EXCEPT !.AI_AVAILABLE = TRUE,
                                      !.SKLEARN_AVAILABLE = ok])
    /\ MainIdle
    /\ train = NoTrain
    /\ rf_model = <<>>
    /\ svm_model = <<>>
    /\ results = <<>>
    /\ n_exc = "none"
    /\ \/ /\ npc = "file"
          /\ fasta \in FastaFiles
          /\ sequences = <<>>
          /\ ids = <<>>
       \/ /\ npc = "engine"
          /\ fasta = NoFile
          /\ \E d \in Datasets : sequences = d.sequences /\ ids = d.ids

CompilerNext ==
    \/ FeatOpen
    \/ FeatFail
    \/ FeatLine
    \/ FeatReturn
    \/ ConsultBrain
    \/ BrainLoad
    \/ BrainPredict
    \/ BrainUnpack
    \/ UpdateData

TrainerNext ==
    \/ TrainerRound
    \/ TrainerQuit

vars == <<prog, pc, coreVars, brainVars, envVars, mainVars, neuralVars>>

Init == CoreInit \/ CompilerInit \/ TrainerInit \/ NeuralInit

Next == CoreNext \/ CompilerNext \/ TrainerNext

Spec == Init /\ [][Next]_vars

\* the core alone
SpecCore == CoreInit /\ [][CoreNext]_vars

\* the compiler and the trainer's terminal
SpecPredictor ==
    (CompilerInit \/ TrainerInit) /\ [][CompilerNext \/ TrainerNext]_vars

\* the classifier called on its own
SpecClassifier == NeuralInit /\ [][NeuralNext]_vars

\* the steps of scan_file_structure
ScanStep == ScanOpen \/ ScanOpenFail \/ ScanLine \/ ScanReadFail \/ ScanEOF

\* the core, with a scan that goes on while it can: the loop is sequential
\* code that nothing suspends
SpecCoreFair == SpecCore /\ WF_vars(ScanStep)

-----------------------------------------------------------------------------
(* Claims about the parameter predictor *)

\* consult_brain has returned to main
Consulted == prog = "compiler" /\ pc = "c_done"

\* model.predict returned a row to consult_brain
RowReturned ==
    /\ prog = "compiler" /\ pc \in {"unpack", "c_done"}
    /\ brain = "present" /\ exc \notin {"load", "predict"}

\* (0.15, 0.2, 10, 2.0, 50, 20, 10)
FixedTuple == <<150, 200, 10, 2000, 50, 20, 10>>

\* C1: with the artifact absent, or with loading or inference raising,
\* consult_brain returns exactly (0.15, 0.2, 10, 2.0, 50, 20, 10) whatever
\* its input, and no exception reaches the caller.
C1_FallbackIsFixedTuple ==
    /\ (Consulted /\ (brain = "absent" \/ exc # "none"))
          => result = [kind |-> "returned", value |-> FixedTuple]
    /\ Consulted => result.kind = "returned"
    /\ prog = "compiler" /\ pc = "crashed" => result.kind = "none" /\ args = NoArgs

C1_Witness ==
    /\ Consulted /\ exc = "predict" /\ args.shift # 0 /\ args.q30 # 850
    /\ result.value = FixedTuple

\* C2: a predicted row that has not exactly 7 columns is fatal: consult_brain
\* returns no prescription then, neither the defaults nor the first 7 columns.
C2_WrongArityIsFatal ==
    (RowReturned /\ pc = "c_done" /\ Len(prediction) # 7)
        => result.kind # "returned"

\* the diagnostic that belongs to a trainer feature column
ArgOf(a, feature) ==
    CASE feature = "q30_score" -> a.q30
      [] feature = "tag_shift_mode" -> a.shift * 1000
      [] feature = "primer_gap" -> a.gap * 1000
      [] feature = "avg_read_len" -> a.length * 1000

\* how the value of a trainer target column is rounded or cast
TargetValue(target, v) ==
    CASE target \in {"best_demux_e", "best_trim_e"} -> Round2(v)
      [] target = "best_max_ee" -> Round1(v)
      [] OTHER -> IntCast(v)

\* C3: the row handed to the model lists the diagnostics in the order of
\* FEATURES, and column k of the predicted row becomes the k-th parameter, the
\* one of TARGETS[k], in consult_brain and in test_interaction alike.
C3_ColumnOrder ==
    /\ input_features # <<>> =>
          \A k \in 1..Len(FEATURES) : input_features[k] = ArgOf(args, FEATURES[k])
    /\ \/ Consulted /\ RowReturned /\ exc = "none"
       \/ prog = "trainer" /\ pc # "crashed" /\ result.kind = "shown"
       =>
          /\ Len(result.value) = Len(TARGETS)
          /\ \A k \in 1..Len(TARGETS) :
                result.value[k] = TargetValue(TARGETS[k], prediction[k])

C3_Witness ==
    /\ Consulted /\ RowReturned /\ exc = "none"
    /\ args.shift # args.gap
    /\ prediction = <<183, 247, 8900, 1749, 47300, 19600, 12200>>
    /\ result.value = <<180, 250, 8, 1700, 47, 19, 12>>

-----------------------------------------------------------------------------
(* Claims about the scanner *)

\* C4: a sample none of whose tags matched any sampled read is reported with
\* dominant shift 0 and dominant gap -1, by the core's export and by the
\* compiler's feature scan.
C4_NoMatchDefaults ==
    /\ (prog = "core" /\ pc = "exported") =>
          \A sid \in Sids(samples) :
              stats_pos[sid] = <<>> =>
                  /\ Get(report, sid).tag_shift_mode = 0
                  /\ Get(report, sid).primer_gap_mode = -1
    /\ (prog = "compiler" /\ pc = "consult" /\ shifts = <<>>) =>
          args.shift = 0 /\ args.gap = -1

\* a step of the core scan that examined one read
Examines == prog = "core" /\ reads_checked' = reads_checked + 1

\* a seed of the primer occurs in the window
SeedSeen(window, sd) == Find(window, sd[1]) # -1 \/ Find(window, sd[2]) # -1

\* the gap that occurrence implies: seed A's place, else seed B's place - 6
RawGap(window, sd) ==
    IF Find(window, sd[1]) # -1 THEN Find(window, sd[1])
    ELSE Find(window, sd[2]) - 6

\* the primers, in list order, with a seed in the window
Seen(window, sds) == {k \in 1..Len(sds) : SeedSeen(window, sds[k])}

\* every count of the counter is as before, but that of key, which is one more
OneMore(before, after, key) ==
    \A k \in Keys(before) \cup Keys(after) \cup {key} :
        Count(after, k) = Count(before, k) + (IF k = key THEN 1 ELSE 0)

\* C5: a tag hit whose primer match implies a raw gap in [-5, -1] is
\* recorded under gap 0.
C5_SmallNegativeGapIsZero ==
    [][(Examines /\ loc'.hit) =>
          LET sds == seeds(PrimersOf(CurFile))
              seen == Seen(loc'.search_window, sds)
          IN  (/\ seen # {}
               /\ LET k == CHOOSE m \in seen : \A n \in seen : m <= n
                  IN  RawGap(loc'.search_window, sds[k]) \in -5..-1)
              => OneMore(stats_gap[loc'.sid], stats_gap'[loc'.sid], 0)]_vars

\* the only primer evidence of the window implies a gap below -5
OnlyBelow(window, sds) ==
    /\ Seen(window, sds) # {}
    /\ \A k \in Seen(window, sds) : RawGap(window, sds[k]) < -5

\* C6 as claimed: a tag hit whose only primer evidence implies a raw gap
\* below -5 adds nothing to the gap histogram.
C6_BelowMinusFiveAddsNothing ==
    [][(Examines /\ loc'.hit
          /\ OnlyBelow(loc'.search_window, seeds(PrimersOf(CurFile))))
          => stats_gap' = stats_gap]_vars

\* C6 as amended: such a tag hit is recorded as not found: the sentinel -1 of
\* the sample's gap histogram is one more, and nothing else changes.
C6_BelowMinusFiveIsNotFound ==
    [][(Examines /\ loc'.hit
          /\ OnlyBelow(loc'.search_window, seeds(PrimersOf(CurFile))))
          => /\ OneMore(stats_gap[loc'.sid], stats_gap'[loc'.sid], -1)
             /\ \A sid \in Sids(samples) \ {loc'.sid} :
                   stats_gap'[sid] = stats_gap[sid]]_vars

\* the locals are those of a read of the file being scanned
LocIsCurrent == Scanning /\ fopen /\ reads_checked >= 1

C6_Witness ==
    /\ LocIsCurrent /\ loc.hit
    /\ OnlyBelow(loc.search_window, seeds(PrimersOf(CurFile)))
    /\ Count(stats_gap[loc.sid], -1) >= 1

\* C7: per sample the gap histogram counts as many observations as the
\* position histogram; each tag hit records one gap, the normalised gap of the
\* first primer in list order whose seed match yields a gap >= -5, or -1.
C7_OneGapPerHit ==
    [][/\ \A sid \in Sids(samples) :
             Total(stats_gap'[sid]) = Total(stats_pos'[sid])
       /\ (Examines /\ loc'.hit) =>
             LET sds == seeds(PrimersOf(CurFile))
                 w == loc'.search_window
                 ok == {k \in Seen(w, sds) : RawGap(w, sds[k]) >= -5}
                 key == IF ok = {} THEN -1
                        ELSE LET k == CHOOSE m \in ok : \A n \in ok : m <= n
                             IN  Max(0, RawGap(w, sds[k]))
             IN  OneMore(stats_gap[loc'.sid], stats_gap'[loc'.sid], key)]_vars

\* C8: position keys lie in 0..10, gap keys are -1 or >= 0, counts are >= 1.
C8_HistogramKeys ==
    prog = "core" =>
        \A sid \in Sids(samples) :
            /\ \A k \in 1..Len(stats_pos[sid]) :
                  /\ stats_pos[sid][k][1] \in 0..10
                  /\ stats_pos[sid][k][2] >= 1
            /\ \A k \in 1..Len(stats_gap[sid]) :
                  /\ stats_gap[sid][k][1] = -1 \/ stats_gap[sid][k][1] >= 0
                  /\ stats_gap[sid][k][2] >= 1

C8_Witness ==
    /\ LocIsCurrent /\ loc.hit
    /\ loc.found_primer /\ loc.gap_idx < 0
    /\ \E sid \in Sids(samples) :
          /\ HasKey(stats_pos[sid], 10)
          /\ HasKey(stats_gap[sid], -1)
          /\ HasKey(stats_gap[sid], 0)

\* where the tag of the k-th listed sample first occurs in the leading 60
\* bases of the read
TagAt(cfg, seq, k) == Find(Slice(seq, 0, 60), Upper(cfg[k][2]))

\* the first sample in input-list order whose tag is found at an offset <= 10
\* (0 if there is none), and that offset
FirstTag(cfg, seq) ==
    LET cands == {k \in 1..Len(cfg) : TagAt(cfg, seq, k) \in 0..10}
        k == CHOOSE m \in cands : \A n \in cands : m <= n
    IN  IF cands = {} THEN [k |-> 0, at |-> -1]
        ELSE [k |-> k, at |-> TagAt(cfg, seq, k)]

\* FirstTag of every read of the model
FirstTagOf ==
    [cfg \in ScannedConfigs |->
        [seq \in {Upper(Strip(line)) : line \in Lines} |-> FirstTag(cfg, seq)]]

\* C9: a read increments exactly one position-histogram entry, that of the
\* first tag in input-list order found at an offset <= 10, in the histogram
\* of a sample carrying that tag; a read with no such tag changes nothing.
C9_OneSamplePerRead ==
    [][Examines =>
          LET first == FirstTagOf[samples][loc'.seq]
          IN  IF first.k = 0
              THEN stats_pos' = stats_pos /\ stats_gap' = stats_gap
              ELSE \E j \in 1..Len(samples) :
                      /\ Upper(samples[j][2]) = Upper(samples[first.k][2])
                      /\ OneMore(stats_pos[samples[j][1]],
                                 stats_pos'[samples[j][1]], first.at)
                      /\ \A sid \in Sids(samples) \ {samples[j][1]} :
                            stats_pos'[sid] = stats_pos[sid]]_vars

C9_Witness ==
    /\ LocIsCurrent /\ loc.hit
    /\ Len(samples) = 2 /\ samples[2][2] = T2
    /\ TagAt(samples, loc.seq, 1) = 6 /\ TagAt(samples, loc.seq, 2) = 1
    /\ stats_pos["S1"] = <<<<6, 1>>>> /\ stats_pos["S2"] = <<>>

\* a step in which the scan finds its file missing or unreadable
FileFails ==
    /\ Scanning
    /\ fstat[CurFile] \in {"pending", "ok"}
    /\ fstat'[CurFile] \in {"missing", "unreadable"}

\* C10: on a missing or unreadable file scan_file_structure raises nothing,
\* leaves both histograms as they were, returns 0, and the run proceeds.
C10_UnreadableFileIsEmpty ==
    [][FileFails =>
          /\ stats_pos' = stats_pos
          /\ stats_gap' = stats_gap
          /\ IF pc = "scan_R1"
             THEN pc' = "scan_R2" /\ c1' = 0
             ELSE pc' = "export" /\ c2' = 0]_vars

C10_Witness ==
    /\ prog = "core" /\ pc = "exported"
    /\ fstat["R2"] \in {"missing", "unreadable"} /\ c2 = 0 /\ c1 = 2
    /\ \E sid \in Sids(samples) : stats_pos[sid] # <<>>

-----------------------------------------------------------------------------
(* Claims about the scan's cost and the reported modes *)

\* a pass of the loop of scan_file_structure
ReadsLine == Scanning /\ fopen /\ i' = i + 1

\* the observations a histogram family holds, over all samples
Observed(h) == SumOver([sid \in DOMAIN h |-> Total(h[sid])], DOMAIN h)

\* the line index of the read that meets the cap
CapLine == 4 * (ScanCap - 1) + 1

\* C11: scan_file_structure examines only the lines of index 1 mod 4, stops
\* with the read that makes 10,000, reads no line beyond that one whatever
\* the file's length, returns a count r <= 10,000, adds at most one
\* observation per examined read to each histogram family, and returns.
C11_ScanIsCapped ==
    /\ [][/\ ReadsLine =>
               /\ IF i % 4 = 1
                  THEN reads_checked' = reads_checked + 1
                  ELSE UNCHANGED <<reads_checked, stats_pos, stats_gap, loc>>
               /\ Observed(stats_pos') - Observed(stats_pos)
                     <= reads_checked' - reads_checked
               /\ Observed(stats_gap') - Observed(stats_gap)
                     <= reads_checked' - reads_checked
               /\ reads_checked' >= ScanCap <=> ~fopen' /\ pc' # "crashed" /\ i = CapLine
          /\ (Scanning /\ ~ReadsLine) => UNCHANGED <<stats_pos, stats_gap>>
          /\ (Scanning /\ ~fopen /\ fopen') => reads_checked' = 0
          /\ (Scanning /\ pc' \notin {pc, "crashed"}) =>
               LET r == IF pc = "scan_R1" THEN c1' ELSE c2'
               IN  r = reads_checked' /\ r <= ScanCap]_vars
    /\ [](Scanning /\ fopen => i <= CapLine /\ reads_checked < ScanCap)
    /\ [](Scanning => <>(~Scanning))

C11_Witness ==
    /\ prog = "core" /\ pc = "scan_R2" /\ ~fopen
    /\ r1_file = "long" /\ i = CapLine + 1
    /\ c1 = ScanCap
    /\ stats_pos["S1"] = <<<<0, ScanCap>>>>
    /\ stats_gap["S1"] = <<<<0, ScanCap>>>>

-----------------------------------------------------------------------------
(* C12: the dominant shift and gap *)

\* key is a key of cnt whose count no key exceeds and no earlier key equals
FirstOfHighest(cnt, key) ==
    \E k \in 1..Len(cnt) :
        /\ cnt[k][1] = key
        /\ \A m \in 1..Len(cnt) : cnt[m][2] <= cnt[k][2]
        /\ \A m \in 1..(k - 1) : cnt[m][2] # cnt[k][2]

\* the modes an exported entry may carry for its two histograms
ModesAgree(entry, shift, gap) ==
    /\ entry.raw_pos_counts # <<>> => FirstOfHighest(entry.raw_pos_counts, shift)
    /\ entry.raw_gap_counts # <<>> => FirstOfHighest(entry.raw_gap_counts, gap)
    /\ Keys(entry.raw_pos_counts) = {2} => shift = 2

\* C12: the dominant shift and the dominant gap that the report carries and
\* that the structure map prints for a sample are each a key of highest count
\* in the sample's histogram, the first inserted one among keys of equal
\* count; a sample whose tag hits are all at offset 2 has dominant shift 2.
C12_DominantIsFirstOfHighest ==
    prog = "core" =>
        /\ \A k \in 1..Len(report) :
               ModesAgree(report[k][2], report[k][2].tag_shift_mode,
                          report[k][2].primer_gap_mode)
        /\ pc = "menu" => Len(shown) = Len(samples)
        /\ \A k \in 1..Len(shown) :
               ModesAgree(Get(report, shown[k].sid), shown[k].shift, shown[k].gap)

\* a sample with two shifts of equal count, the later and smaller of which is
\* not the one reported and printed
C12_Witness ==
    /\ prog = "core" /\ pc = "menu"
    /\ \E k \in 1..Len(shown) :
          LET entry == Get(report, shown[k].sid)
          IN  /\ Len(entry.raw_pos_counts) = 2
              /\ entry.raw_pos_counts[1][2] = entry.raw_pos_counts[2][2]
              /\ entry.raw_pos_counts[1][1] > entry.raw_pos_counts[2][1]
              /\ entry.tag_shift_mode = entry.raw_pos_counts[1][1]
              /\ shown[k].shift = entry.raw_pos_counts[1][1]

-----------------------------------------------------------------------------
(* C13: the histograms of reads of two structures *)

\* the primers of the open file that yield seeds
KnownPrimers ==
    {Upper(PrimersOf(CurFile)[k]) : k \in {m \in 1..Len(PrimersOf(CurFile)) :
                                            Len(PrimersOf(CurFile)[m]) >= 12}}

\* the read starts with the tag, and the primer follows it at once
TagThenPrimer(seq, tag, primer) ==
    Slice(seq, 0, Len(tag) + Len(primer)) = tag \o primer

\* the tag is at offset 3, and the primer follows it after 2 bases
ShiftedTagGapPrimer(seq, tag, primer) ==
    /\ Find(seq, tag) = 3
    /\ Slice(seq, Len(tag) + 5, Len(tag) + 5 + Len(primer)) = primer
    /\ Find(SliceFrom(seq, Len(tag) + 3), Slice(primer, 0, 6)) = 2

\* a counter as the mapping it is
AsMap(cnt) == [key \in Keys(cnt) |-> Count(cnt, key)]

\* the sample of a one-sample run
TheSample == samples[1][1]

\* C13: a read with the tag at offset 0 and a known primer right behind it
\* adds one to shift 0 and to gap 0 of the sample, a read with the tag at
\* offset 3 and the primer 2 bases behind it adds one to shift 3 and to gap 2;
\* a file of MixFirst reads of the first and MixSecond reads of the second
\* kind, in either order, gives the sample the position histogram
\* {0: MixFirst, 3: MixSecond} and the gap histogram {0: MixFirst,
\* 2: MixSecond}, and with MixFirst > MixSecond and no reverse read the
\* report carries dominant shift 0 and dominant gap 0.
C13_TwoStructures ==
    /\ [][Examines =>
            \A k \in 1..Len(samples), primer \in KnownPrimers :
                LET tag == Upper(samples[k][2])
                    sid == Get(tag_to_sample(samples), tag)
                IN  /\ TagThenPrimer(loc'.seq, tag, primer) =>
                          /\ OneMore(stats_pos[sid], stats_pos'[sid], 0)
                          /\ OneMore(stats_gap[sid], stats_gap'[sid], 0)
                    /\ ShiftedTagGapPrimer(loc'.seq, tag, primer) =>
                          /\ OneMore(stats_pos[sid], stats_pos'[sid], 3)
                          /\ OneMore(stats_gap[sid], stats_gap'[sid], 2)]_vars
    /\ [](prog = "core" /\ r1_file \in {"mixed_a", "mixed_b"}
            /\ c1 = MixFirst + MixSecond =>
            /\ (pc = "scan_R2" /\ fstat["R2"] = "pending") =>
                  /\ AsMap(stats_pos[TheSample]) = (0 :> MixFirst @@ 3 :> MixSecond)
                  /\ AsMap(stats_gap[TheSample]) = (0 :> MixFirst @@ 2 :> MixSecond)
            /\ (report # <<>> /\ c2 = 0) =>
                  LET entry == Get(report, TheSample)
                  IN  /\ AsMap(entry.raw_pos_counts) = (0 :> MixFirst @@ 3 :> MixSecond)
                      /\ AsMap(entry.raw_gap_counts) = (0 :> MixFirst @@ 2 :> MixSecond)
                      /\ MixFirst > MixSecond =>
                            /\ entry.tag_shift_mode = 0
                            /\ entry.primer_gap_mode = 0)

\* the report of a file whose reads of the second structure came first
C13_Witness ==
    /\ prog = "core" /\ pc = "exported" /\ r1_file = "mixed_b"
    /\ c1 = MixFirst + MixSecond /\ c2 = 0
    /\ Get(report, TheSample).raw_pos_counts = << <<3, MixSecond>>, <<0, MixFirst>> >>
    /\ Get(report, TheSample).raw_gap_counts = << <<2, MixSecond>>, <<0, MixFirst>> >>
    /\ Get(report, TheSample).tag_shift_mode = 0
    /\ Get(report, TheSample).primer_gap_mode = 0

-----------------------------------------------------------------------------
(* C14, C15, C16: the diagnosis switch, the menu, the scan-only mode *)

\* sample_strategies is a mapping of exactly the sample ids, all to mode
AllMappedTo(strategies, mode) ==
    /\ strategies.kind = "dict"
    /\ Keys(strategies.map) = Sids(samples)
    /\ \A sid \in Sids(samples) : Get(strategies.map, sid) = mode

\* the steps of the diagnosis
InDiagnosis == pc \in {"scan_R1", "scan_R2", "export", "exported", "menu", "scanned"}

\* C14: unless AUTO_DIAGNOSE is exactly "TRUE", main never scans: no read
\* file is opened, nothing is counted or exported, no menu is shown, and the
\* strategy of every sample is "strict", with which every sample is
\* demultiplexed.
C14_NoDiagnosisIsAllStrict ==
    (prog = "core" /\ AUTO_DIAGNOSE # "TRUE") =>
        /\ ~InDiagnosis
        /\ \A f \in Files : fstat[f] = "pending"
        /\ ~fopen /\ c1 = -1 /\ c2 = -1 /\ reads_checked = 0
        /\ report = <<>> /\ shown = <<>> /\ choice = ""
        /\ \A sid \in Sids(samples) : stats_pos[sid] = <<>> /\ stats_gap[sid] = <<>>
        /\ pc \notin {"main", "staged"} => AllMappedTo(sample_strategies, "strict")
        /\ s_idx >= 1 =>
              cmd_demux = << <<"-g", <<"^">> \o samples[s_idx][2]>>,
                             <<"-G", <<"^">> \o samples[s_idx][2]>> >>

\* a run whose AUTO_DIAGNOSE is "true" in lower case has processed its samples
C14_Witness ==
    /\ prog = "core" /\ AUTO_DIAGNOSE = "true" /\ pc = "finished"
    /\ s_idx = Len(samples)
    /\ AllMappedTo(sample_strategies, "strict")
    /\ cmd_demux = << <<"-g", <<"^">> \o samples[s_idx][2]>>,
                       <<"-G", <<"^">> \o samples[s_idx][2]>> >>
    /\ total_seqs(ran) > 0

\* the mode the menu gives a selection
Selected(ch) ==
    IF ch = "1" THEN "strict" ELSE IF ch = "2" THEN "universal" ELSE "rescue"

\* C15: the menu returns a mapping of exactly the sample ids with one value
\* for all of them: "strict" for selection 1, "universal" for 2, "rescue" for
\* 3; any other input returns nothing and the prompt is shown again; no other
\* value is ever returned.
C15_MenuIsUniform ==
    /\ [][(prog = "core" /\ pc = "menu" /\ choice' # choice) =>
            IF choice' \in {"1", "2", "3"}
            THEN /\ pc' = "scanned"
                 /\ AllMappedTo(sample_strategies', Selected(choice'))
            ELSE /\ pc' = "menu"
                 /\ sample_strategies' = sample_strategies]_vars
    /\ [][(prog = "core" /\ pc = "menu" /\ pc' = "scanned") =>
            choice' \in {"1", "2", "3"}]_vars
    /\ [](prog = "core" /\ RUN_MODE # "1" /\ AUTO_DIAGNOSE = "TRUE" =>
            /\ pc \in {"scanned", "process", "classify", "finished"} =>
                  \E mode \in {"strict", "universal", "rescue"} :
                      AllMappedTo(sample_strategies, mode)
            /\ pc \in {"main", "staged", "scan_R1", "scan_R2", "export", "exported", "menu"} =>
                  sample_strategies = Unset)

\* selection 3 was typed and every sample is to be rescued
C15_Witness ==
    /\ prog = "core" /\ pc = "scanned" /\ choice = "3"
    /\ Len(samples) = 2 /\ samples[1][1] # samples[2][1]
    /\ AllMappedTo(sample_strategies, "rescue")

\* the tool runs after the raw QC
LaterStages == {ran[k][1] : k \in 2..Len(ran)}

\* C16: in a diagnosis under RUN_MODE "1" the report is written once, when
\* both scans have returned and before scan_raw_data returns; the menu is
\* never shown and no input is asked for; main returns without a
\* demultiplexing, trimming, merging, filtering or clustering step.
C16_ScanOnlyMode ==
    /\ [](prog = "core" /\ AUTO_DIAGNOSE = "TRUE" /\ RUN_MODE = "1" =>
            /\ pc \notin {"menu", "process", "classify", "exited"}
            /\ choice = "" /\ shown = <<>>
            /\ Len(ran) <= 1 /\ s_idx = 0 /\ cmd_demux = <<>>
            /\ pc \in {"scanned", "finished"} <=> sample_strategies = None
            /\ pc \in {"exported", "scanned", "finished"} =>
                  Keys(report) = Sids(samples)
            /\ pc = "exported" => c1 >= 0 /\ c2 >= 0
            /\ pc \in {"main", "staged", "scan_R1", "scan_R2", "export"} => report = <<>>)
    /\ [][(prog = "core" /\ AUTO_DIAGNOSE = "TRUE" /\ RUN_MODE = "1"
              /\ report' # report) =>
            /\ pc = "export" /\ pc' = "exported"
            /\ c1 >= 0 /\ c2 >= 0 /\ ~fopen]_vars

\* main has returned from a scan-only run: two reads of R1 and two of R2
\* were scanned, and the raw QC is the only tool that ran
C16_Witness ==
    /\ prog = "core" /\ AUTO_DIAGNOSE = "TRUE" /\ RUN_MODE = "1"
    /\ pc = "finished"
    /\ Keys(report) = Sids(samples)
    /\ ran = << <<"qc", "raw_data">> >>
    /\ sample_strategies = None

-----------------------------------------------------------------------------
(* C17 to C20: the classifier *)

\* the classifier has its input and has gone past reading it
InputRead == Classifying /\ npc \notin {"idle", "file"}

\* the classifier is through, with a mapping or with an exception
Through == npc \in {"returned", "raised"}

\* C17: with no sequence record (an empty list, or a file holding no header
\* line) run_ai_classification and run_hybrid_engine return the empty
\* mapping and raise nothing.
C17_EmptyInputGivesEmptyMapping ==
    (InputRead /\ sequences = <<>>) =>
        /\ npc # "raised"
        /\ npc = "returned" => results = <<>>

\* C18: with scikit-learn at hand, a non-empty list of records whose
\* sequences all have 5 bases or more is given a mapping that holds a score
\* in [0, 1] for every id of the list.
C18_EveryIdIsScored ==
    (InputRead /\ Through /\ SKLEARN_AVAILABLE /\ sequences # <<>>
        /\ \A k \in 1..Len(sequences) : Len(sequences[k]) >= KmerLen) =>
        /\ npc = "returned"
        /\ Keys(results) = {ids[k] : k \in 1..Len(ids)}
        /\ \A k \in 1..Len(results) : results[k][2] \in 0..1000

\* how often label occurs in y
Labelled(y, label) == Cardinality({k \in 1..Len(y) : y[k] = label})

\* C19: the training set of Path A holds max(20, 20% of n) positive rows,
\* the features of the first input sequences in input order, and as many
\* negative rows, of 200-base sequences; there are as many rows as labels.
C19_TrainingSetIsBalanced ==
    (Classifying /\ train # NoTrain) =>
        LET n == Len(sequences)
            top == IF n \div 5 > 20 THEN n \div 5 ELSE 20
        IN  /\ Len(train.X) = Len(train.y)
            /\ Labelled(train.y, 1) = top
            /\ Labelled(train.y, 0) = top
            /\ Len(train.X) = 2 * top
            /\ \A k \in 1..top : train.X[k] = extract_features(sequences[k])
            /\ \A k \in (top + 1)..(2 * top) :
                   \E noise \in {NoisePool[m] : m \in 1..Len(NoisePool)} :
                       /\ Len(noise) = 200
                       /\ train.X[k] = extract_features(noise)

\* C20: without scikit-learn the engine goes down neither path, raises
\* nothing and returns the empty mapping; a core that could not import the
\* classifier never calls it; in both cases the core does not crash, and it
\* writes no verdict.
C20_UnavailableIsNotAnError ==
    /\ (Classifying /\ ~SKLEARN_AVAILABLE) =>
          /\ npc \in {"idle", "file", "engine", "returned"}
          /\ n_exc = "none"
          /\ results = <<>>
          /\ train = NoTrain
    /\ (prog = "core" /\ ~AI_AVAILABLE) => npc = "idle" /\ pc # "classify"
    /\ (prog = "core" /\ (~AI_AVAILABLE \/ ~SKLEARN_AVAILABLE)) =>
          /\ pc # "crashed"
          /\ ai_log = <<>>

\* the core has completed a run in which the classifier was switched on and
\* called, and scikit-learn was missing
C20_Witness ==
    /\ prog = "core" /\ pc = "finished"
    /\ USE_ML_FILTER = "TRUE" /\ AI_AVAILABLE /\ ~SKLEARN_AVAILABLE
    /\ npc = "returned" /\ sequences # <<>> /\ results = <<>>
    /\ total_seqs(ran) > 0

-----------------------------------------------------------------------------
(* C21: the ranges of the prescription *)

\* the declared ranges of the 7 fields, decimals in thousandths
InDeclaredRanges(p) ==
    /\ p[1] \in 0..1000
    /\ p[2] \in 0..1000
    /\ p[3] >= 0
    /\ p[4] >= 0
    /\ p[5] > 0
    /\ p[6] >= 0
    /\ p[7] > 0

\* C21: every prescription consult_brain returns and main puts into
\* file_data has both error rates in [0, 1], merge_max_diffs >= 0,
\* max_expected_errors >= 0, min_length > 0, quality_cutoff >= 0 and
\* min_overlap > 0, whatever row of 7 columns the model predicted.
C21_PrescriptionInRange ==
    (prog = "compiler" /\ pc \in {"c_done", "step1"} /\ result.kind = "returned")
        => InDeclaredRanges(result.value)

-----------------------------------------------------------------------------
(* C22: the scan report written and read back *)

\* C22: the record read back from scan_report.json has one entry for every
\* sample id and no other, and the entry of a sample carries the dominant
\* shift and the dominant gap that were exported for it, as the same
\* integers; a sample without observations reads back 0 and -1.
C22_ReportRoundTrip ==
    (prog = "core" /\ json_file # NoJson) =>
        LET loaded == ReloadReport(json_file)
        IN  /\ Len(loaded) = Cardinality(Sids(samples))
            /\ Keys(loaded) = Sids(samples)
            /\ \A sid \in Sids(samples) :
                   /\ Get(loaded, sid).tag_shift_mode = Get(report, sid).tag_shift_mode
                   /\ Get(loaded, sid).primer_gap_mode = Get(report, sid).primer_gap_mode
                   /\ Get(loaded, sid).tag_shift_mode \in Int
                   /\ Get(loaded, sid).primer_gap_mode \in Int
            /\ pc = "exported" =>
                   \A sid \in Sids(samples) :
                       /\ Get(loaded, sid).tag_shift_mode = Dominant(stats_pos[sid], 0)
                       /\ Get(loaded, sid).primer_gap_mode = Dominant(stats_gap[sid], -1)
                       /\ stats_pos[sid] = <<>> => Get(loaded, sid).tag_shift_mode = 0
                       /\ stats_gap[sid] = <<>> => Get(loaded, sid).primer_gap_mode = -1

\* a report read back with a sample that was never hit, beside one whose
\* dominant gap is the sentinel -1 and whose dominant shift has two digits
C22_Witness ==
    /\ prog = "core" /\ pc = "exported"
    /\ \E a, b \in Sids(samples) :
          LET loaded == ReloadReport(json_file)
          IN  /\ stats_pos[a] = <<>>
              /\ Get(loaded, a).tag_shift_mode = 0
              /\ Get(loaded, a).primer_gap_mode = -1
              /\ stats_pos[b] # <<>>
              /\ Get(loaded, b).tag_shift_mode = 10
              /\ Get(loaded, b).primer_gap_mode = -1

-----------------------------------------------------------------------------
(* C23: the demultiplexing patterns *)

\* the patterns the command carries for one read direction, in order
PatternsOf(cmd, flag) ==
    LET at == SelectSeq([k \in 1..Len(cmd) |-> k], LAMBDA k : cmd[k][1] = flag)
    IN  [k \in 1..Len(at) |-> cmd[at[k]][2]]

\* the patterns a strategy asks for
Asked(strategy, tag, patterns) ==
    CASE strategy = "strict" -> patterns = << <<"^">> \o tag >>
      [] strategy = "universal" ->
            /\ Len(patterns) = 6
            /\ \A shift \in 0..5 :
                   patterns[shift + 1] = <<"^">> \o [k \in 1..shift |-> "N"] \o tag
      [] strategy = "rescue" -> patterns = << tag >> /\ tag[1] # "^"
      [] OTHER -> FALSE

\* C23: the command that demultiplexes a sample carries, for R1 and for R2
\* alike, the one pattern ^tag under strict, the six patterns ^tag, ^Ntag,
\* ... ^NNNNNtag under universal, and the one pattern tag without an anchor
\* under rescue, and no other -g or -G option.
C23_DemuxPatterns ==
    (prog = "core" /\ s_idx >= 1) =>
        LET strategy == Get(sample_strategies.map, samples[s_idx][1])
            tag == samples[s_idx][2]
        IN  /\ Asked(strategy, tag, PatternsOf(cmd_demux, "-g"))
            /\ Asked(strategy, tag, PatternsOf(cmd_demux, "-G"))
            /\ \A k \in 1..Len(cmd_demux) : cmd_demux[k][1] \in {"-g", "-G"}

\* the second sample was demultiplexed under universal
C23_Witness ==
    /\ prog = "core" /\ s_idx = 2 /\ choice = "2"
    /\ Len(cmd_demux) = 12
    /\ cmd_demux[11] = <<"-g", <<"^">> \o N(5) \o samples[2][2]>>
    /\ cmd_demux[12] = <<"-G", <<"^">> \o N(5) \o samples[2][2]>>

-----------------------------------------------------------------------------
(* C24: the histograms while the decision is produced *)

\* the histograms hold the same keys with the same counts, in the same order
SameHistograms ==
    \A sid \in Sids(samples) :
        /\ stats_pos'[sid] = stats_pos[sid]
        /\ stats_gap'[sid] = stats_gap[sid]

\* C24: from the end of the second scan to the return of scan_raw_data (the
\* export, the structure map, the two tables with their lookups of offsets
\* no read had, every pass of the menu and the selection) no histogram gains
\* or loses a key and no count changes.
C24_DecisionLeavesHistograms ==
    [][(prog = "core" /\ pc \in {"export", "exported", "menu"}) =>
          SameHistograms]_vars

\* the menu is shown for a sample whose histograms lack offsets the tables
\* looked up
C24_Witness ==
    /\ prog = "core" /\ pc = "menu" /\ choice = "4"
    /\ \E sid \in Sids(samples) :
          /\ Keys(stats_pos[sid]) = {3}
          /\ Keys(stats_gap[sid]) = {2}
    /\ \E sid \in Sids(samples) : stats_pos[sid] = <<>>

-----------------------------------------------------------------------------
(* C25: the ensemble *)

\* the engine has returned the mapping of its ensemble
Ensembled == Classifying /\ npc = "returned" /\ rf_model # <<>> /\ svm_model # <<>>

\* results[ids[k]] is the mean of the two scores of sequence k
MeanOf(k) ==
    2 * Get(results, ids[k]) =
        InTurn(rf_model, k) + Sigmoid(InTurn(svm_model, k))

\* no later sequence carries the id of sequence k
LastOfItsId(k) == \A j \in (k + 1)..Len(ids) : ids[j] # ids[k]

\* C25 as claimed: for every index i the score stored under ids[i] is the
\* mean of the Path A probability and the Path B logistic score of sequence
\* i; with distinct ids there is one entry per sequence.
C25_EveryIndexIsItsMean ==
    Ensembled =>
        /\ \A k \in 1..Len(ids) : MeanOf(k)
        /\ (\A j, k \in 1..Len(ids) : ids[j] = ids[k] => j = k) =>
              Len(results) = Len(sequences)

\* C25 as amended: the score stored under an id is the mean of the two
\* scores of the last sequence that carries the id; the mapping holds the
\* ids of the input and no other, and with distinct ids, where every
\* sequence is the last of its id, it has one entry per sequence.
C25_LastIndexIsItsMean ==
    Ensembled =>
        /\ \A k \in 1..Len(ids) : LastOfItsId(k) => MeanOf(k)
        /\ Keys(results) = {ids[k] : k \in 1..Len(ids)}
        /\ Len(results) = Cardinality(Keys(results))
        /\ (\A j, k \in 1..Len(ids) : ids[j] = ids[k] => j = k) =>
              Len(results) = Len(sequences)

\* 20 sequences under 10 ids, the two of an id scored differently
C25_Witness ==
    /\ Ensembled /\ Len(ids) = 20 /\ Len(results) = 10
    /\ ids[1] = ids[2]
    /\ InTurn(rf_model, 1) # InTurn(rf_model, 2)
    /\ MeanOf(2) /\ ~MeanOf(1)

-----------------------------------------------------------------------------
(* C26: the records of the candidate-sequence file *)

\* the positions of the header lines of a file
HeaderLines(lines) == {k \in 1..Len(lines) : lines[k][1] = ">"}

\* the position of the n-th header line
NthHeader(lines, n) ==
    CHOOSE k \in HeaderLines(lines) :
        Cardinality({h \in HeaderLines(lines) : h <= k}) = n

\* the last line of the record whose header is line k
RecordEnd(lines, k) ==
    IF \E h \in HeaderLines(lines) : h > k
    THEN (CHOOSE h \in HeaderLines(lines) :
            h > k /\ \A g \in HeaderLines(lines) : g > k => h <= g) - 1
    ELSE Len(lines)

RECURSIVE Joined(_, _, _)
\* the stripped lines a..b of a file, one after another
Joined(lines, a, b) ==
    IF a > b THEN <<>> ELSE Strip(lines[a]) \o Joined(lines, a + 1, b)

\* a header line without '>' and without the whitespace around the rest
Bare(line) == Strip(SelectSeq(line, LAMBDA ch : ch # ">"))

\* the file has been read and the engine was called with its records
FileParsed == Classifying /\ fasta.exists /\ npc \notin {"idle", "file"}

\* C26: the file gives one record per header line, in file order: the id is
\* the header without '>' and surrounding whitespace, the sequence is the
\* stripped lines up to the next header or the end of the file, one after
\* another; lines before the first header are in no record, and there are
\* as many ids as sequences.  A file without a header line gives {}.
C26_OneRecordPerHeader ==
    /\ Classifying => Len(ids) = Len(sequences)
    /\ FileParsed =>
         LET lines == fasta.lines IN
         IF HeaderLines(lines) = {}
         THEN npc = "returned" /\ results = <<>>
         ELSE /\ Len(ids) = Cardinality(HeaderLines(lines))
              /\ \A n \in 1..Len(ids) :
                    LET k == NthHeader(lines, n) IN
                    /\ ids[n] = Bare(lines[k])
                    /\ sequences[n] = Joined(lines, k + 1, RecordEnd(lines, k))

\* a sequence line, then the header "> B> " and its sequence line: one
\* record B that holds the later line only
C26_Witness ==
    /\ FileParsed /\ Len(fasta.lines) = 3
    /\ HeaderLines(fasta.lines) = {2}
    /\ fasta.lines[1] = <<"A", "C", "G", "T", "\n">>
    /\ fasta.lines[2] = <<">", " ", "B", ">", " ", "\n">>
    /\ ids = << <<"B">> >>
    /\ sequences = << <<"G", "G", "T", "T", "A", "A", "C", "C">> >>

-----------------------------------------------------------------------------
(* C27: the staging directory *)

\* C27: when main has returned, a staging directory that stage_files_if_slow
\* created has been removed, whether the copy succeeded or fell back, and
\* whether main returned after the scan (RUN_MODE "1") or at its end.
C27_StagingRemoved ==
    (prog = "core" /\ pc = "finished") => TEMP_DIR # "present"

-----------------------------------------------------------------------------
(* C28: the order of the stages *)

\* the demultiplex, trim, merge and filter runs of main so far, in order
Work == SelectSeq(ran, LAMBDA run : run[1] \in {"demux", "trim", "merge", "filter"})

\* the demultiplex runs among them
Demuxed == SelectSeq(ran, LAMBDA run : run[1] = "demux")

\* the stage that may follow a stage for the same sample
StageAfter(stage) ==
    CASE stage = "demux" -> "trim"
      [] stage = "trim" -> "merge"
      [] stage = "merge" -> "filter"
      [] OTHER -> "none"

\* C28: the runs of main are, sample after sample in list order, demultiplex,
\* primer trim, merge and filter of that sample; a sample whose demultiplex
\* step wrote no pair has no further run, and the next sample follows it:
\* every sample is demultiplexed before main goes on to the clustering.
C28_StagesInOrder ==
    prog = "core" =>
        /\ Len(Demuxed) = s_idx
        /\ \A k \in 1..Len(Demuxed) : Demuxed[k][2] = samples[k][1]
        /\ Work # <<>> => Work[1][1] = "demux"
        /\ \A k \in 1..Len(Work) :
              IF k < Len(Work) /\ Work[k + 1][1] # "demux"
              THEN /\ Work[k + 1][1] = StageAfter(Work[k][1])
                   /\ Work[k + 1][2] = Work[k][2]
              ELSE Work[k][1] \in {"demux", "filter"}
        /\ (pc = "classify" \/ (pc = "finished" /\ ran # << <<"qc", "raw_data">> >>))
              => s_idx = Len(samples)

\* the first sample failed at the demultiplex step and has no further run;
\* the second went through its four stages
C28_Witness ==
    /\ prog = "core" /\ pc = "finished" /\ Len(samples) = 2
    /\ Work = << <<"demux", samples[1][1]>>, <<"demux", samples[2][1]>>,
                 <<"trim", samples[2][1]>>, <<"merge", samples[2][1]>>,
                 <<"filter", samples[2][1]>> >>

-----------------------------------------------------------------------------
(* C29: samples that share a tag *)

\* no later sample of the list carries the tag of sample k, in either case
LastOfItsTag(k) ==
    \A m \in (k + 1)..Len(samples) : Upper(samples[m][2]) # Upper(samples[k][2])

\* the ids of the samples that are the last of their tag
Owners == {samples[k][1] : k \in {m \in 1..Len(samples) : LastOfItsTag(m)}}

\* sample j shares its tag with a later sample of another id
Shadowed(j) ==
    \E k \in (j + 1)..Len(samples) :
        /\ Upper(samples[k][2]) = Upper(samples[j][2])
        /\ samples[k][1] # samples[j][1]

\* C29: of two samples with the same tag, compared without case, the later
\* one gets every hit of the tag: a step of the scan adds observations only
\* to a sample that is the last of its tag, the histograms of the earlier
\* sample stay empty, and its dominant values in the report are 0 and -1.
C29_SharedTagGoesToLater ==
    /\ [](prog = "core" =>
            \A j \in 1..Len(samples) :
                (Shadowed(j) /\ samples[j][1] \notin Owners) =>
                    /\ stats_pos[samples[j][1]] = <<>>
                    /\ stats_gap[samples[j][1]] = <<>>
                    /\ report # <<>> =>
                          /\ Get(report, samples[j][1]).tag_shift_mode = 0
                          /\ Get(report, samples[j][1]).primer_gap_mode = -1)
    /\ [][Examines =>
            \A sid \in Sids(samples) :
                (stats_pos'[sid] # stats_pos[sid] \/ stats_gap'[sid] # stats_gap[sid])
                    => sid \in Owners]_vars

\* S1 and S2 share a tag that differs in case only; the reads that carry it
\* were counted for S2, and S1 is reported with the defaults
C29_Witness ==
    /\ prog = "core" /\ pc = "exported" /\ Len(samples) = 2
    /\ Shadowed(1) /\ samples[1][2] # samples[2][2]
    /\ stats_pos[samples[1][1]] = <<>>
    /\ stats_pos[samples[2][1]] # <<>> /\ stats_gap[samples[2][1]] # <<>>
    /\ Get(report, samples[1][1]).tag_shift_mode = 0
    /\ Get(report, samples[1][1]).primer_gap_mode = -1
    /\ Get(report, samples[2][1]).tag_shift_mode > 0

-----------------------------------------------------------------------------
(* C30: the strategy a sample is processed with *)

\* the strategy the selector assigned: strict without a diagnosis, otherwise
\* what the accepted selection of the menu stands for
Assigned ==
    CASE AUTO_DIAGNOSE # "TRUE" -> "strict"
      [] choice = "1" -> "strict"
      [] choice = "2" -> "universal"
      [] choice = "3" -> "rescue"
      [] OTHER -> "none"

\* C30: in the processing phase sample_strategies is a mapping that holds
\* every sample id of the list with the assigned strategy, so the lookup of
\* a processed sample never falls back to universal, and the sample is
\* demultiplexed with the patterns of the assigned strategy.
C30_AssignedStrategyIsUsed ==
    /\ []((prog = "core" /\ pc = "process") =>
            /\ sample_strategies.kind = "dict"
            /\ Assigned \in {"strict", "universal", "rescue"}
            /\ \A k \in 1..Len(samples) :
                  /\ HasKey(sample_strategies.map, samples[k][1])
                  /\ Get(sample_strategies.map, samples[k][1]) = Assigned)
    /\ [][(prog = "core" /\ s_idx' = s_idx + 1) =>
            /\ pc = "process"
            /\ Asked(Assigned, samples[s_idx'][2], PatternsOf(cmd_demux', "-g"))
            /\ Asked(Assigned, samples[s_idx'][2], PatternsOf(cmd_demux', "-G"))]_vars

\* a list that names S1 twice: the second S1 was demultiplexed under rescue,
\* the strategy the one entry of the mapping holds
C30_Witness ==
    /\ prog = "core" /\ s_idx = 2
    /\ samples[1][1] = samples[2][1] /\ samples[1][2] # samples[2][2]
    /\ choice = "3" /\ Len(sample_strategies.map) = 1
    /\ cmd_demux = << <<"-g", samples[2][2]>>, <<"-G", samples[2][2]>> >>


====
